---------------------------- MODULE Spec2Model ----------------------------
(***************************************************************************)
(* A model of minecraft-ping: the binary wire codec (data_types.rs), the   *)
(* framed packet readers and senders and the Server List Ping session      *)
(* (main.rs).                                                              *)
(*                                                                         *)
(* Machine integers are modelled with their width.  An u32 is a vector of  *)
(* 32 bits (a sequence of 32 numbers 0 or 1, the least significant first), *)
(* so that shifts, masks and the `as` casts are computed as the machine    *)
(* computes them; an u8 is a number in 0..255; an i32 is an integer in     *)
(* -2^31 .. 2^31-1.                                                        *)
(*                                                                         *)
(* A `T: Write` value is a record [wire, buf, buffered, failing, room]:    *)
(* wire holds the bytes that reached the sink, buf the bytes a BufWriter   *)
(* still holds, and a failing sink accepts `room` more bytes before its    *)
(* write returns an error.  A `T: Read` value is a record                  *)
(* [data, pos, fail, limited, limit]: the bytes the peer sends, how many   *)
(* were consumed, whether the stream ends with an I/O error instead of an  *)
(* end of file, and the limit of a Take adaptor.                           *)
(***************************************************************************)
EXTENDS Integers, Sequences, FiniteSets, TLC

VARIABLES
    pc,         \* position of the operation or of the session
    value,      \* codec: the i32 handed to write_var_int, or the i64 handed
                \* to write_long (its 64 bits, the least significant first)
    text,       \* codec: the string handed to write_string (code points)
    writer,     \* the Write sink (a Vec<u8> or the connection's BufWriter)
    reader,     \* the Read source (a byte slice or the connection's BufReader)
    result,     \* what the last operation returned: a Result, with the
                \* source (src) or the sink (out) as the operation left it
    arguments,  \* session: the CommandLineArguments
    session,    \* session: the locals of do_server_list_ping
    now,        \* session: the time, one tick for every blocking I/O call
    exit_code,  \* session: the ErrorCode returned, "running" before
    stdout,     \* session: what was printed to the standard output
    stderr,     \* session: what was printed to the standard error
    trace       \* session: the I/O calls made on the connection, in order

sessionVars == <<arguments, session, now, exit_code, stdout, stderr, trace>>

vars == <<pc, value, text, writer, reader, result, sessionVars>>

-----------------------------------------------------------------------------
(* Bounds of the model *)

\* values within MaxDelta of every VarInt length boundary are written
MaxDelta == 2
\* strings of up to MaxStrLen characters are written
MaxStrLen == 2
\* a packet declares up to MaxSlack bytes more or fewer than its body holds
MaxSlack == 2
\* up to MaxExtra bytes follow a packet body in the stream
MaxExtra == 2
\* a failing connection accepts up to MaxRoom bytes before a write fails
MaxRoom == 22
\* up to MaxRun bytes with the continuation bit set start a stream
MaxRun == 6
\* up to MaxPayload bytes follow the length prefix of a string in a stream
MaxPayload == 3

-----------------------------------------------------------------------------
(* Machine integers *)

I32_MAX == 2147483647
I32_MIN == (-I32_MAX) - 1

\* a sequence given by a rule, written out element by element
Written(f, n) == SubSeq(f, 1, n)

Zeros(n) == Written([i \in 1..n |-> 0], n)

Zero32 == Zeros(32)

\* `v as u32` for a non-negative number below 2^31 (and u8 / usize `as u32`)
NatAsU32(n) ==
    Written([i \in 1..32 |-> IF i = 32 THEN 0 ELSE (n \div (2^(i - 1))) % 2], 32)

\* `value as u32` for an i32: the two's complement bit pattern
AsU32(v) ==
    IF v >= 0 THEN NatAsU32(v)
    ELSE LET w == (v + I32_MAX) + 1   \* v + 2^31, in 0 .. 2^31-1
         IN  Written([i \in 1..32 |->
                         IF i = 32 THEN 1 ELSE (w \div (2^(i - 1))) % 2], 32)

\* the number whose 8 bits are the elements lo+1 .. lo+8 of b
Octet(b, lo) ==
    b[lo + 1] + 2 * b[lo + 2] + 4 * b[lo + 3] + 8 * b[lo + 4]
    + 16 * b[lo + 5] + 32 * b[lo + 6] + 64 * b[lo + 7] + 128 * b[lo + 8]

\* the number whose 31 bits are the low 31 bits of an u32
Low31(x) ==
    Octet(x, 0) + 256 * Octet(x, 8) + 65536 * Octet(x, 16)
    + 16777216 * (Octet(x, 24) - 128 * x[32])

\* `num as i32` for an u32
AsI32(x) ==
    IF x[32] = 1 THEN (Low31(x) - I32_MAX) - 1
    ELSE Low31(x)

\* `x as u8` for an u32: the low 8 bits
AsU8(x) == Octet(x, 0)

\* x >> k as it would be on an i32: the sign bit is shifted in
Sar(x, k) == SubSeq(x, k + 1, 32) \o Written([i \in 1..k |-> x[32]], k)

\* the bits shifted out at the top come back in at the bottom
Rotl(x, k) == SubSeq(x, 32 - k + 1, 32) \o SubSeq(x, 1, 32 - k)

\* x >> k and x << k on u32 (k < 32; bits shifted out are lost)
Shr(x, k) == SubSeq(x, k + 1, 32) \o Zeros(k)
Shl(x, k) == Zeros(k) \o SubSeq(x, 1, 32 - k)

\* x & y, x | y, !x on u32
And32(x, y) == Written([i \in 1..32 |-> x[i] * y[i]], 32)
Or32(x, y) == Written([i \in 1..32 |-> IF x[i] + y[i] > 0 THEN 1 ELSE 0], 32)
Not32(x) == Written([i \in 1..32 |-> 1 - x[i]], 32)

\* a & mask on u8 for a mask of low bits (mask = 2^k - 1): the low k bits
And8Low(a, mask) == a % (mask + 1)

\* a & bit on u8 for a mask of one bit (bit = 2^k): that bit of a
And8Bit(a, bit) == ((a \div bit) % 2) * bit

\* the bit is left as it is
Keep8Bit(a, bit) == a

\* a | bit on u8 for a mask of one bit (bit = 2^k): a with that bit set
Or8Bit(a, bit) == IF And8Bit(a, bit) = 0 THEN a + bit ELSE a

-----------------------------------------------------------------------------
(* std::io::Write and std::io::Read *)

Ok(v) == [ok |-> TRUE, val |-> v]
Err(e) == [ok |-> FALSE, err |-> e]

\* Vec::new() / Vec::with_capacity(n): a sink that never fails
VecNew == [wire |-> <<>>, buf |-> <<>>, buffered |-> FALSE,
           failing |-> FALSE, room |-> 0]

\* the bytes of `data` reach the sink itself, as many as it accepts
Push(w, data) ==
    IF ~w.failing THEN
        [ok |-> TRUE, out |-> [w EXCEPT !.wire = @ \o data]]
    ELSE IF Len(data) <= w.room THEN
        [ok |-> TRUE,
         out |-> [w EXCEPT !.wire = @ \o data, !.room = @ - Len(data)]]
    ELSE
        [ok |-> FALSE, err |-> "io: write failed",
         out |-> [w EXCEPT !.wire = @ \o SubSeq(data, 1, w.room), !.room = 0]]

\* output.write_all(data): a BufWriter keeps the bytes (every packet of the
\* model is far shorter than its 8 KiB buffer), any other sink takes them
write_all(w, data) ==
    IF w.buffered THEN [ok |-> TRUE, out |-> [w EXCEPT !.buf = @ \o data]]
    ELSE Push(w, data)

\* output.flush(): a BufWriter hands its buffer to the connection
flush(w) ==
    IF w.buffered
    THEN LET p == Push([w EXCEPT !.buf = <<>>], w.buf)
         IN  IF p.ok THEN p
             ELSE [p EXCEPT !.out.buf = SubSeq(w.buf, w.room + 1, Len(w.buf))]
    ELSE [ok |-> TRUE, out |-> w]

\* a BufWriter is dropped: what it still holds is written if the connection
\* takes it, and an error is ignored
drop(w) ==
    LET p == flush(w)
    IN  [p.out EXCEPT !.buf = <<>>]

\* a source over the bytes `data`
Source(data, fail) ==
    [data |-> data, pos |-> 0, fail |-> fail, limited |-> FALSE, limit |-> 0]

\* input.take(n)
Take(src, n) ==
    IF src.limited /\ src.limit <= n THEN src
    ELSE [src EXCEPT !.limited = TRUE, !.limit = n]

\* the Take adaptor is dropped: the inner reader is used again
Untake(src, outer) ==
    [src EXCEPT !.limited = outer.limited,
                !.limit = IF outer.limited
                          THEN outer.limit - (src.pos - outer.pos) ELSE 0]

\* one read of one byte: a byte, the end of the stream, or an I/O error
ReadByte(src) ==
    IF src.limited /\ src.limit = 0 THEN [kind |-> "eof", src |-> src]
    ELSE IF src.pos < Len(src.data) THEN
        [kind |-> "byte", byte |-> src.data[src.pos + 1],
         src |-> [src EXCEPT !.pos = @ + 1,
                             !.limit = IF src.limited THEN @ - 1 ELSE @]]
    ELSE IF src.fail THEN [kind |-> "err", src |-> [src EXCEPT !.fail = FALSE]]
    ELSE [kind |-> "eof", src |-> src]

-----------------------------------------------------------------------------
(* data_types.rs: VarInt *)

CONTINUE_BIT == 128
SEGMENT_BITS == 127

RECURSIVE write_var_int_loop(_, _, _)
write_var_int_loop(output, value_u32, i) ==
    IF i = 5 THEN
        [ok |-> FALSE, err |-> "Attempting to write more than 5 bytes",
         out |-> output]
    ELSE
        LET next_value == Shr(value_u32, i * 7)
            segment_data == And32(next_value, NatAsU32(SEGMENT_BITS))
        IN  IF And32(next_value, Not32(NatAsU32(SEGMENT_BITS))) = Zero32
            THEN write_all(output, <<AsU8(segment_data)>>)
            ELSE LET w == write_all(output,
                                    <<Or8Bit(AsU8(segment_data), CONTINUE_BIT)>>)
                 IN  IF ~w.ok THEN w
                     ELSE write_var_int_loop(w.out, value_u32, i + 1)

write_var_int(output, v) == write_var_int_loop(output, AsU32(v), 0)

RECURSIVE read_var_int_loop(_, _, _)
read_var_int_loop(input, num, i) ==
    IF i = 5 THEN [ok |-> FALSE, err |-> "Invalid VarInt", src |-> input]
    ELSE
        LET next == ReadByte(input)
        IN  CASE next.kind = "eof" ->
                    [ok |-> FALSE, err |-> "Invalid VarInt", src |-> next.src]
              [] next.kind = "err" ->
                    [ok |-> FALSE, err |-> "Invalid VarInt: not enough bytes",
                     src |-> next.src]
              [] next.kind = "byte" ->
                    LET num2 == Or32(num,
                                     Shl(NatAsU32(And8Low(next.byte, SEGMENT_BITS)),
                                         i * 7))
                    IN  IF And8Bit(next.byte, CONTINUE_BIT) = 0
                        THEN [ok |-> TRUE, val |-> AsI32(num2), src |-> next.src]
                        ELSE read_var_int_loop(next.src, num2, i + 1)

\* read_var_int reading at most four bytes: input.take(4)
read_var_int_take4(input) ==
    LET r == read_var_int_loop(Take(input, 4), Zero32, 0)
    IN  [r EXCEPT !.src = Untake(r.src, input)]

\* read_var_int reading one more byte when it fails
read_var_int_one_more(input) ==
    LET r == read_var_int_loop(input, Zero32, 0)
    IN  IF r.ok THEN r ELSE [r EXCEPT !.src = ReadByte(r.src).src]

read_var_int(input) == read_var_int_loop(input, Zero32, 0)

-----------------------------------------------------------------------------
(* data_types.rs: String.  A string is the sequence of its characters      *)
(* (Unicode scalar values); as_bytes is its UTF-8 encoding and from_utf8   *)
(* the validating decoder.                                                 *)

\* the UTF-8 encoding of one character
EncodeChar(c) ==
    IF c < 128 THEN <<c>>
    ELSE IF c < 2048 THEN <<192 + (c \div 64), 128 + (c % 64)>>
    ELSE IF c < 65536 THEN
        <<224 + (c \div 4096), 128 + ((c \div 64) % 64), 128 + (c % 64)>>
    ELSE <<240 + (c \div 262144), 128 + ((c \div 4096) % 64),
           128 + ((c \div 64) % 64), 128 + (c % 64)>>

RECURSIVE as_bytes(_)
\* value.as_bytes(): the encodings of the characters, one after the other
\* (computed by halves, which keeps the evaluation shallow)
as_bytes(s) ==
    IF s = <<>> THEN <<>>
    ELSE IF Len(s) = 1 THEN EncodeChar(s[1])
    ELSE LET h == Len(s) \div 2
         IN  as_bytes(SubSeq(s, 1, h)) \o as_bytes(SubSeq(s, h + 1, Len(s)))

\* value.len(): the length in bytes
str_len(s) == Len(as_bytes(s))

\* value.chars().count(): the length in characters
chars_count(s) == Len(s)

IsCont(b) == b >= 128 /\ b <= 191

\* the length of the sequence a leading byte announces, 0 for no leading byte
SeqLen(b0) ==
    IF b0 < 128 THEN 1
    ELSE IF b0 >= 194 /\ b0 <= 223 THEN 2
    ELSE IF b0 >= 224 /\ b0 <= 239 THEN 3
    ELSE IF b0 >= 240 /\ b0 <= 244 THEN 4
    ELSE 0

\* the bytes from position i on start with one well-formed sequence
WellFormedAt(bytes, i) ==
    LET b0 == bytes[i]
        n == SeqLen(b0)
    IN  /\ n > 0
        /\ i + n - 1 <= Len(bytes)
        /\ \A k \in 1..(n - 1) : IsCont(bytes[i + k])
        /\ (b0 = 224 => bytes[i + 1] >= 160)
        /\ (b0 = 237 => bytes[i + 1] <= 159)
        /\ (b0 = 240 => bytes[i + 1] >= 144)
        /\ (b0 = 244 => bytes[i + 1] <= 143)

\* the character a well-formed sequence at position i encodes
DecodeAt(bytes, i) ==
    LET b0 == bytes[i]
        c(k) == bytes[i + k] % 64
    IN  CASE SeqLen(b0) = 1 -> b0
          [] SeqLen(b0) = 2 -> (b0 % 32) * 64 + c(1)
          [] SeqLen(b0) = 3 -> (b0 % 16) * 4096 + c(1) * 64 + c(2)
          [] SeqLen(b0) = 4 ->
                (b0 % 8) * 262144 + c(1) * 4096 + c(2) * 64 + c(3)

\* String::from_utf8: the characters of a well-formed UTF-8 byte sequence.
\* The bytes are well formed when they split into well-formed sequences:
\* every byte that is no continuation byte starts one, the first byte starts
\* one, and each sequence ends where the next one starts.
from_utf8(bytes) ==
    LET n == Len(bytes)
        leads == {i \in 1..n : ~IsCont(bytes[i])}
        valid ==
            \/ n = 0
            \/ /\ 1 \in leads
               /\ \A i \in leads :
                    /\ WellFormedAt(bytes, i)
                    /\ (i + SeqLen(bytes[i]) <= n
                            => i + SeqLen(bytes[i]) \in leads)
        starts == SelectSeq(Written([i \in 1..n |-> i], n),
                            LAMBDA i : ~IsCont(bytes[i]))
    IN  IF valid
        THEN Ok(Written([k \in 1..Len(starts) |-> DecodeAt(bytes, starts[k])],
                        Len(starts)))
        ELSE Err("invalid utf-8 sequence")

\* the bytes that could be read, be they fewer than n
read_exact_short(input, n) ==
    LET left == Len(input.data) - input.pos
        avail == IF input.limited /\ input.limit < left
                 THEN input.limit ELSE left
        got == IF n <= avail THEN n ELSE avail
    IN  [ok |-> TRUE,
         val |-> SubSeq(input.data, input.pos + 1, input.pos + got),
         src |-> [input EXCEPT !.pos = @ + got,
                               !.limit = IF input.limited THEN @ - got ELSE @]]

\* input.read_exact(&mut buf) for a buffer of n bytes: the n bytes, or an
\* error once the bytes that could be read are consumed
read_exact(input, n) ==
    LET left == Len(input.data) - input.pos
        avail == IF input.limited /\ input.limit < left
                 THEN input.limit ELSE left
        got == IF n <= avail THEN n ELSE avail
        after == [input EXCEPT !.pos = @ + got,
                               !.limit = IF input.limited THEN @ - got ELSE @]
    IN  IF n <= avail THEN
            [ok |-> TRUE,
             val |-> SubSeq(input.data, input.pos + 1, input.pos + n),
             src |-> after]
        ELSE IF ReadByte(after).kind = "err" THEN
            [ok |-> FALSE, err |-> "io: read failed",
             src |-> ReadByte(after).src]
        ELSE
            [ok |-> FALSE, err |-> "failed to fill whole buffer",
             src |-> after]

\* write_string with the length in characters as the prefix
write_string_chars(output, s) ==
    LET w == write_var_int(output, chars_count(s))
    IN  IF ~w.ok THEN w ELSE write_all(w.out, as_bytes(s))

write_string(output, s) ==
    IF str_len(s) > I32_MAX THEN
        [ok |-> FALSE, err |-> "length exceeds the maximum VarInt",
         out |-> output]
    ELSE
        LET size == str_len(s)
            w == write_var_int(output, size)
        IN  IF ~w.ok THEN w ELSE write_all(w.out, as_bytes(s))

read_string(input) ==
    LET size == read_var_int(input)
    IN  IF ~size.ok THEN size
        ELSE IF size.val < 0 THEN
            [ok |-> FALSE, err |-> "Invalid String size", src |-> size.src]
        ELSE
            LET utf8_data == read_exact(size.src, size.val)
            IN  IF ~utf8_data.ok THEN utf8_data
                ELSE LET string == from_utf8(utf8_data.val)
                     IN  IF ~string.ok
                         THEN [ok |-> FALSE, err |-> string.err,
                               src |-> utf8_data.src]
                         ELSE [ok |-> TRUE, val |-> string.val,
                               src |-> utf8_data.src]

-----------------------------------------------------------------------------
(* data_types.rs: Long and Unsigned Short.  An i64 is a vector of 64 bits  *)
(* (the least significant one first, the sign last).                       *)

\* the i64 of a number the model can hold (sign extended)
I64(n) ==
    LET x == AsU32(n)
    IN  x \o Written([i \in 1..32 |-> x[32]], 32)

\* the first byte taken for the least significant one
from_le_bytes(bytes) ==
    Written([i \in 1..64 |->
                (bytes[((i - 1) \div 8) + 1] \div (2^((i - 1) % 8))) % 2], 64)

\* i64::from_be_bytes(bytes): the first byte is the most significant one
from_be_bytes(bytes) ==
    Written([i \in 1..64 |->
                (bytes[8 - ((i - 1) \div 8)] \div (2^((i - 1) % 8))) % 2], 64)

\* value.to_be_bytes() of an i64
to_be_bytes(x) ==
    Written([k \in 1..8 |-> Octet(x, 8 * (8 - k))], 8)

\* the two bytes of an u16, the least significant first
u16_to_le_bytes(n) == <<n % 256, n \div 256>>

\* value.to_be_bytes() of an u16
u16_to_be_bytes(n) == <<n \div 256, n % 256>>

read_long(input) ==
    LET bytes == read_exact(input, 8)
    IN  IF ~bytes.ok THEN bytes
        ELSE [ok |-> TRUE, val |-> from_be_bytes(bytes.val), src |-> bytes.src]

write_unsigned_short(output, n) == write_all(output, u16_to_be_bytes(n))

write_long(output, x) == write_all(output, to_be_bytes(x))

-----------------------------------------------------------------------------
(* main.rs: the framed packet readers *)

\* leftover bytes are neither read nor counted
bytes_count_ignored(input) == [count |-> 0, src |-> input]

\* input.bytes().count(): every byte left is read and counted, and so is an
\* I/O error that ends the stream
bytes_count(input) ==
    LET left == Len(input.data) - input.pos
        avail == IF input.limited /\ input.limit < left
                 THEN input.limit ELSE left
        after == [input EXCEPT !.pos = @ + avail,
                               !.limit = IF input.limited THEN @ - avail ELSE @]
        last == ReadByte(after)
    IN  IF last.kind = "err"
        THEN [count |-> avail + 1, src |-> last.src]
        ELSE [count |-> avail, src |-> after]

\* the packet ID test of a reader that accepts every packet
any_packet_id(packet_id, expected) == FALSE

\* packet_id != 0 in read_status_response, packet_id != 1 in
\* read_pong_response
unknown_packet_id(packet_id, expected) == packet_id # expected

\* a source that is not restricted to the packet length
take_nothing(input, packet_length) == input

\* input.take(packet_length as u64) in the two packet readers
take_packet(input, packet_length) == Take(input, packet_length)

read_status_response(input) ==
    LET packet_length == read_var_int(input)
    IN  IF ~packet_length.ok THEN packet_length
        ELSE IF packet_length.val < 0 THEN
            [ok |-> FALSE, err |-> "Invalid packet length",
             src |-> packet_length.src]
        ELSE
            LET outer == packet_length.src
                packet_id == read_var_int(take_packet(outer, packet_length.val))
            IN  IF ~packet_id.ok
                THEN [packet_id EXCEPT !.src = Untake(packet_id.src, outer)]
                ELSE IF unknown_packet_id(packet_id.val, 0) THEN
                    [ok |-> FALSE, err |-> "unknown packet ID",
                     src |-> Untake(packet_id.src, outer)]
                ELSE
                    LET server_info == read_string(packet_id.src)
                        bytes_left == bytes_count(server_info.src)
                    IN  IF bytes_left.count # 0 THEN
                            [ok |-> FALSE,
                             err |-> "could not deserialize packet",
                             src |-> Untake(bytes_left.src, outer)]
                        ELSE [server_info EXCEPT
                                !.src = Untake(bytes_left.src, outer)]

read_pong_response(input) ==
    LET packet_length == read_var_int(input)
    IN  IF ~packet_length.ok THEN packet_length
        ELSE IF packet_length.val < 0 THEN
            [ok |-> FALSE, err |-> "Invalid packet length",
             src |-> packet_length.src]
        ELSE
            LET outer == packet_length.src
                packet_id == read_var_int(take_packet(outer, packet_length.val))
            IN  IF ~packet_id.ok
                THEN [packet_id EXCEPT !.src = Untake(packet_id.src, outer)]
                ELSE IF unknown_packet_id(packet_id.val, 1) THEN
                    [ok |-> FALSE, err |-> "unknown packet ID",
                     src |-> Untake(packet_id.src, outer)]
                ELSE
                    LET payload == read_long(packet_id.src)
                    IN  IF ~payload.ok
                        THEN [payload EXCEPT !.src = Untake(payload.src, outer)]
                        ELSE
                            LET bytes_left == bytes_count(payload.src)
                            IN  IF bytes_left.count # 0 THEN
                                    [ok |-> FALSE,
                                     err |-> "could not deserialize packet",
                                     src |-> Untake(bytes_left.src, outer)]
                                ELSE [payload EXCEPT
                                        !.src = Untake(bytes_left.src, outer)]

-----------------------------------------------------------------------------
(* main.rs: the packet senders *)

MIN_MINECRAFT_PROTOCOL_VERSION == 0

\* the `?` after a write: once a write failed, the ones after it are not made
and_then_write_var_int(prev, v) ==
    IF prev.ok THEN write_var_int(prev.out, v) ELSE prev

and_then_write_string(prev, s) ==
    IF prev.ok THEN write_string(prev.out, s) ELSE prev

and_then_write_unsigned_short(prev, n) ==
    IF prev.ok THEN write_unsigned_short(prev.out, n) ELSE prev

and_then_write_long(prev, x) ==
    IF prev.ok THEN write_long(prev.out, x) ELSE prev

and_then_write_all(prev, data) ==
    IF prev.ok THEN write_all(prev.out, data) ELSE prev

\* the buffer is left as it is
and_then_no_flush(prev) == prev

and_then_flush(prev) ==
    IF prev.ok THEN flush(prev.out) ELSE prev

\* the packet is built in a Vec, then sent behind its length
send_handshake(output, server_address, port) ==
    LET b1 == write_var_int(VecNew, 0)
        b2 == and_then_write_var_int(b1, MIN_MINECRAFT_PROTOCOL_VERSION)
        b3 == and_then_write_string(b2, server_address)
        b4 == and_then_write_unsigned_short(b3, port)
        b5 == and_then_write_var_int(b4, 1)
    IN  IF ~b5.ok THEN [ok |-> FALSE, err |-> b5.err, out |-> output]
        ELSE LET buffer == b5.out.wire
                 packet_size == Len(buffer)
                 o1 == write_var_int(output, packet_size)
                 o2 == and_then_write_all(o1, buffer)
             IN  and_then_flush(o2)

\* no status request is sent
send_nothing(output) == [ok |-> TRUE, out |-> output]

send_status_request(output) ==
    LET o1 == write_var_int(output, 1)
        o2 == and_then_write_var_int(o1, 0)
    IN  and_then_flush(o2)

send_ping_request(output, payload) ==
    LET o1 == write_var_int(output, 9)
        o2 == and_then_write_var_int(o1, 1)
        o3 == and_then_write_long(o2, payload)
    IN  and_then_flush(o3)

-----------------------------------------------------------------------------
(* main.rs: do_server_list_ping.  serde_json is modelled on the documents  *)
(* the peers of the model send: for each, the Response it deserializes to  *)
(* or the error.                                                           *)

None == [some |-> FALSE]
Some(v) == [some |-> TRUE, val |-> v]

\* {"version":{"name":"1.0","protocol":1},"players":{"max":2,"online":1},
\*  "description":"hi"}
DocFull ==
    [text |->
        <<123, 34, 118, 101, 114, 115, 105, 111, 110, 34, 58, 123, 34, 110,
        97, 109, 101, 34, 58, 34, 49, 46, 48, 34, 44, 34, 112, 114, 111,
        116, 111, 99, 111, 108, 34, 58, 49, 125, 44, 34, 112, 108, 97, 121,
        101, 114, 115, 34, 58, 123, 34, 109, 97, 120, 34, 58, 50, 44, 34,
        111, 110, 108, 105, 110, 101, 34, 58, 49, 125, 44, 34, 100, 101,
        115, 99, 114, 105, 112, 116, 105, 111, 110, 34, 58, 34, 104, 105,
        34, 125>>,
     parsed |->
        Ok([version |-> [name |-> <<49, 46, 48>>, protocol |-> 1],
            players |-> [max |-> 2, online |-> 1],
            description |-> <<104, 105>>,
            favicon |-> None,
            enforces_secure_chat |-> None,
            previews_chat |-> None])]

\* {"version":{"name":"b","protocol":-1},"players":{"max":0,"online":3},
\*  "description":"","favicon":""}
DocFavicon ==
    [text |->
        <<123, 34, 118, 101, 114, 115, 105, 111, 110, 34, 58, 123, 34, 110,
        97, 109, 101, 34, 58, 34, 98, 34, 44, 34, 112, 114, 111, 116, 111,
        99, 111, 108, 34, 58, 45, 49, 125, 44, 34, 112, 108, 97, 121, 101,
        114, 115, 34, 58, 123, 34, 109, 97, 120, 34, 58, 48, 44, 34, 111,
        110, 108, 105, 110, 101, 34, 58, 51, 125, 44, 34, 100, 101, 115,
        99, 114, 105, 112, 116, 105, 111, 110, 34, 58, 34, 34, 44, 34, 102,
        97, 118, 105, 99, 111, 110, 34, 58, 34, 34, 125>>,
     parsed |->
        Ok([version |-> [name |-> <<98>>, protocol |-> -1],
            players |-> [max |-> 0, online |-> 3],
            description |-> <<>>,
            favicon |-> Some(<<>>),
            enforces_secure_chat |-> None,
            previews_chat |-> None])]

\* {"description":"hi"}
DocMissing ==
    [text |->
        <<123, 34, 100, 101, 115, 99, 114, 105, 112, 116, 105, 111, 110,
        34, 58, 34, 104, 105, 34, 125>>,
     parsed |-> Err("missing field version")]

\* {
DocInvalid ==
    [text |-> <<123>>,
     parsed |-> Err("EOF while parsing an object")]

\* {"version":{"name":"1.0","protocol":1},"description":"hi"}
DocNoPlayers ==
    [text |->
        <<123, 34, 118, 101, 114, 115, 105, 111, 110, 34, 58, 123, 34, 110,
        97, 109, 101, 34, 58, 34, 49, 46, 48, 34, 44, 34, 112, 114, 111, 116,
        111, 99, 111, 108, 34, 58, 49, 125, 44, 34, 100, 101, 115, 99, 114,
        105, 112, 116, 105, 111, 110, 34, 58, 34, 104, 105, 34, 125>>,
     parsed |-> Err("missing field players")]

\* {"version":{"name":"1.0","protocol":1},
\*  "players":{"max":2,"online":1}}
DocNoDescription ==
    [text |->
        <<123, 34, 118, 101, 114, 115, 105, 111, 110, 34, 58, 123, 34, 110,
        97, 109, 101, 34, 58, 34, 49, 46, 48, 34, 44, 34, 112, 114, 111, 116,
        111, 99, 111, 108, 34, 58, 49, 125, 44, 34, 112, 108, 97, 121, 101,
        114, 115, 34, 58, 123, 34, 109, 97, 120, 34, 58, 50, 44, 34, 111, 110,
        108, 105, 110, 101, 34, 58, 49, 125, 125>>,
     parsed |-> Err("missing field description")]

\* {"players":{"max":2,"online":1},"description":"hi"}
DocNoVersion ==
    [text |->
        <<123, 34, 112, 108, 97, 121, 101, 114, 115, 34, 58, 123, 34, 109, 97,
        120, 34, 58, 50, 44, 34, 111, 110, 108, 105, 110, 101, 34, 58, 49,
        125, 44, 34, 100, 101, 115, 99, 114, 105, 112, 116, 105, 111, 110, 34,
        58, 34, 104, 105, 34, 125>>,
     parsed |-> Err("missing field version")]

Documents ==
    {DocFull, DocFavicon, DocMissing, DocInvalid, DocNoPlayers, DocNoDescription,
     DocNoVersion}

\* every document is taken for the full one
from_str_any(json) == DocFull.parsed

\* serde_json::from_str::<Response>(json)
from_str(json) ==
    IF \E d \in Documents : d.text = json
    THEN (CHOOSE d \in Documents : d.text = json).parsed
    ELSE Err("expected value")

\* print_line_verbose(msg, arguments)
print_line_verbose(err, msg) ==
    IF arguments.verbose THEN Append(err, msg) ELSE err

-----------------------------------------------------------------------------
(* chat.rs: the renderer of chat components.  A serde_json::Value is a     *)
(* record [t, b, s, a, m]: t is "null", "bool", "number", "string",        *)
(* "array" or "object", b the boolean, s the characters of the string      *)
(* (code points) or the JSON text of the number, a the elements of the     *)
(* array and m the members of the object, a sequence of [key, val]; the    *)
(* fields a value has no use for are FALSE or empty.  The rendered String  *)
(* is the sequence of the ColoredStrings pushed to it, each a record       *)
(* [text, style].                                                          *)

Color(r, g, b) == [red |-> r, green |-> g, blue |-> b]

\* Style::default()
StyleDefault ==
    [bold |-> FALSE, italic |-> FALSE, underline |-> FALSE,
     strikethrough |-> FALSE, obfuscated |-> FALSE, color |-> None]

Null == [t |-> "null", b |-> FALSE, s |-> <<>>, a |-> <<>>, m |-> <<>>]
Bool(b) == [Null EXCEPT !.t = "bool", !.b = b]
Number(digits) == [Null EXCEPT !.t = "number", !.s = digits]
String(s) == [Null EXCEPT !.t = "string", !.s = s]
Array(elements) == [Null EXCEPT !.t = "array", !.a = elements]
Object(members) == [Null EXCEPT !.t = "object", !.m = members]

\* one member of an object
Member(key, val) == [key |-> key, val |-> val]

\* chat_object.get(key)
get(chat_object, key) ==
    LET found == {i \in 1..Len(chat_object) : chat_object[i].key = key}
    IN  IF found = {} THEN None
        ELSE Some(chat_object[CHOOSE i \in found : \A j \in found : i >= j].val)

\* the character that starts a control sequence of the old system
SECTION_SIGN == 167

\* a hexadecimal digit as a number, -1 for any other character
HexDigit(c) ==
    IF c \in 48..57 THEN c - 48
    ELSE IF c \in 97..102 THEN c - 87
    ELSE IF c \in 65..70 THEN c - 55
    ELSE -1

\* u32::from_str_radix(digits, 16) for at most six characters: a plus sign may
\* come first, then at least one digit and only digits
from_str_radix(src) ==
    LET digits == IF src # <<>> /\ src[1] = 43 THEN Tail(src) ELSE src
        n == Len(digits)
    IN  IF n = 0 \/ \E i \in 1..n : HexDigit(digits[i]) < 0
        THEN Err("invalid digit")
        ELSE Ok([i \in 1..6 |->
                    IF i <= 6 - n THEN 0 ELSE HexDigit(digits[i - (6 - n)])])

\* "#RRGGBB": hexnum >> 16, hexnum >> 8 and hexnum, each as u8
parse_web_color(color) ==
    IF color # <<>> /\ color[1] = 35 /\ Len(as_bytes(color)) = 7
    THEN LET hexnum == from_str_radix(Tail(color))
         IN  IF hexnum.ok
             THEN Some(Color(hexnum.val[1] * 16 + hexnum.val[2],
                             hexnum.val[3] * 16 + hexnum.val[4],
                             hexnum.val[5] * 16 + hexnum.val[6]))
             ELSE None
    ELSE None

parse_color(color) ==
    CASE color = <<98, 108, 97, 99, 107>> ->
            Some(Color(0, 0, 0))  \* black
      [] color = <<100, 97, 114, 107, 95, 98, 108, 117, 101>> ->
            Some(Color(0, 0, 170))  \* dark_blue
      [] color = <<100, 97, 114, 107, 95, 103, 114, 101, 101, 110>> ->
            Some(Color(0, 170, 0))  \* dark_green
      [] color = <<100, 97, 114, 107, 95, 97, 113, 117, 97>> ->
            Some(Color(0, 170, 170))  \* dark_aqua
      [] color = <<100, 97, 114, 107, 95, 114, 101, 100>> ->
            Some(Color(170, 0, 0))  \* dark_red
      [] color = <<100, 97, 114, 107, 95, 112, 117, 114, 112, 108, 101>> ->
            Some(Color(170, 0, 170))  \* dark_purple
      [] color = <<103, 111, 108, 100>> ->
            Some(Color(255, 170, 0))  \* gold
      [] color = <<103, 114, 97, 121>> ->
            Some(Color(170, 170, 170))  \* gray
      [] color = <<100, 97, 114, 107, 95, 103, 114, 97, 121>> ->
            Some(Color(85, 85, 85))  \* dark_gray
      [] color = <<98, 108, 117, 101>> ->
            Some(Color(85, 85, 255))  \* blue
      [] color = <<103, 114, 101, 101, 110>> ->
            Some(Color(85, 255, 85))  \* green
      [] color = <<97, 113, 117, 97>> ->
            Some(Color(85, 255, 255))  \* aqua
      [] color = <<114, 101, 100>> ->
            Some(Color(255, 85, 85))  \* red
      [] color = <<108, 105, 103, 104, 116, 95, 112, 117, 114, 112, 108, 101>> ->
            Some(Color(255, 85, 255))  \* light_purple
      [] color = <<121, 101, 108, 108, 111, 119>> ->
            Some(Color(255, 255, 85))  \* yellow
      [] color = <<119, 104, 105, 116, 101>> ->
            Some(Color(255, 255, 255))  \* white
      [] OTHER -> parse_web_color(color)

\* every control sequence resets the old system
control_sequence_reset(style, c) == StyleDefault

\* the style after the control sequence of the character c
control_sequence_style(style, c) ==
    CASE c = 48 -> [style EXCEPT !.color = Some(Color(0, 0, 0))]  \* 0
      [] c = 49 -> [style EXCEPT !.color = Some(Color(0, 0, 170))]  \* 1
      [] c = 50 -> [style EXCEPT !.color = Some(Color(0, 170, 0))]  \* 2
      [] c = 51 -> [style EXCEPT !.color = Some(Color(0, 170, 170))]  \* 3
      [] c = 52 -> [style EXCEPT !.color = Some(Color(170, 0, 0))]  \* 4
      [] c = 53 -> [style EXCEPT !.color = Some(Color(170, 0, 170))]  \* 5
      [] c = 54 -> [style EXCEPT !.color = Some(Color(255, 170, 0))]  \* 6
      [] c = 55 -> [style EXCEPT !.color = Some(Color(170, 170, 170))]  \* 7
      [] c = 56 -> [style EXCEPT !.color = Some(Color(85, 85, 85))]  \* 8
      [] c = 57 -> [style EXCEPT !.color = Some(Color(85, 85, 255))]  \* 9
      [] c = 97 -> [style EXCEPT !.color = Some(Color(85, 255, 85))]  \* a
      [] c = 98 -> [style EXCEPT !.color = Some(Color(85, 255, 255))]  \* b
      [] c = 99 -> [style EXCEPT !.color = Some(Color(255, 85, 85))]  \* c
      [] c = 100 -> [style EXCEPT !.color = Some(Color(255, 85, 255))]  \* d
      [] c = 101 -> [style EXCEPT !.color = Some(Color(255, 255, 85))]  \* e
      [] c = 102 -> [style EXCEPT !.color = Some(Color(255, 255, 255))]  \* f
      [] c = 107 -> [style EXCEPT !.obfuscated = TRUE]  \* k
      [] c = 108 -> [style EXCEPT !.bold = TRUE]  \* l
      [] c = 109 -> [style EXCEPT !.strikethrough = TRUE]  \* m
      [] c = 110 -> [style EXCEPT !.underline = TRUE]  \* n
      [] c = 111 -> [style EXCEPT !.italic = TRUE]  \* o
      [] c = 114 -> StyleDefault  \* r
      [] OTHER -> style


\* str_iter.by_ref().take_while(|c| *c != '§') from the position i: the
\* characters taken and the position of the iterator afterwards (the sign
\* that ended the run is consumed)
take_while(str, i) ==
    LET signs == {j \in i..Len(str) : str[j] = SECTION_SIGN}
        stop == IF signs = {} THEN Len(str) + 1
                ELSE CHOOSE j \in signs : \A k \in signs : j <= k
    IN  [text |-> SubSeq(str, i, stop - 1), next |-> stop + 1]

\* out.push_str(styled_string.to_string())
push_str(out, string, style) ==
    Append(out, [text |-> string, style |-> style])

\* while let Some(control_sequence) = str_iter.next() { ... }
RECURSIVE old_system(_, _, _, _)
old_system(str, i, out, style) ==
    IF i > Len(str) THEN out
    ELSE LET styled_string == take_while(str, i + 1)
             new_style == control_sequence_style(style, str[i])
         IN  old_system(str, styled_string.next,
                        push_str(out, styled_string.text, new_style),
                        new_style)

\* the old system going on from the style of the component
apply_styles_carried(str, out, style) ==
    LET styled_string == take_while(str, 1)
    IN  old_system(str, styled_string.next,
                   push_str(out, styled_string.text, style), style)

apply_styles(str, out, style) ==
    LET styled_string == take_while(str, 1)
    IN  old_system(str, styled_string.next,
                   push_str(out, styled_string.text, style), StyleDefault)

\* the properties of the object are not looked at
object_style_kept(style, chat_object) == style

\* the properties read whatever their JSON type is
object_style_untyped(style, chat_object) ==
    LET flag(inherited, key) ==
            LET member == get(chat_object, key)
            IN  IF member.some THEN member.val.b ELSE inherited
        color == get(chat_object, "color")
    IN  [bold |-> flag(style.bold, "bold"),
         italic |-> flag(style.italic, "italic"),
         underline |-> flag(style.underline, "underlined"),
         strikethrough |-> flag(style.strikethrough, "strikethrough"),
         obfuscated |-> flag(style.obfuscated, "obfuscated"),
         color |-> IF color.some
                   THEN parse_color(color.val.s) ELSE style.color]

\* the style of the component: each property that is a boolean (a string,
\* for the color) replaces the inherited one
object_style(style, chat_object) ==
    LET flag(inherited, key) ==
            LET member == get(chat_object, key)
            IN  IF member.some /\ member.val.t = "bool"
                THEN member.val.b ELSE inherited
        color == get(chat_object, "color")
    IN  [bold |-> flag(style.bold, "bold"),
         italic |-> flag(style.italic, "italic"),
         underline |-> flag(style.underline, "underlined"),
         strikethrough |-> flag(style.strikethrough, "strikethrough"),
         obfuscated |-> flag(style.obfuscated, "obfuscated"),
         color |-> IF color.some /\ color.val.t = "string"
                   THEN parse_color(color.val.s) ELSE style.color]

\* the siblings pushed first to last
push_siblings_in_order(components, siblings, style) ==
    components \o [i \in 1..Len(siblings) |->
                      [comp |-> siblings[i], style |-> style]]

\* the siblings pushed but for the first
push_siblings_but_first(components, siblings, style) ==
    components \o [i \in 1..(Len(siblings) - 1) |->
                      [comp |-> siblings[Len(siblings) + 1 - i],
                       style |-> style]]

\* the components that wait take the style of the siblings pushed
push_siblings_restyled(components, siblings, style) ==
    [i \in 1..Len(components) |-> [comp |-> components[i].comp, style |-> style]]
        \o [i \in 1..Len(siblings) |->
               [comp |-> siblings[Len(siblings) + 1 - i], style |-> style]]

\* for sibling in siblings.iter().rev() { components.push((sibling, style)) }
push_siblings(components, siblings, style) ==
    components \o [i \in 1..Len(siblings) |->
                      [comp |-> siblings[Len(siblings) + 1 - i],
                       style |-> style]]

\* t.to_string() of a boolean or a number
to_string(t) ==
    IF t.t = "bool"
    THEN (IF t.b THEN <<116, 114, 117, 101>> ELSE <<102, 97, 108, 115, 101>>)
    ELSE t.s

\* one turn of the loop: the component popped from the stack (a sequence, its
\* top the last element) and matched
parse_component_turn(components, str) ==
    LET top == components[Len(components)]
        comp == top.comp
        rest == SubSeq(components, 1, Len(components) - 1)
    IN  CASE comp.t = "null" -> [components |-> rest, str |-> str]
          [] comp.t = "string" ->
                [components |-> rest,
                 str |-> apply_styles(comp.s, str, top.style)]
          [] comp.t = "object" ->
                LET chat_object == comp.m
                    style == object_style(top.style, chat_object)
                    own == get(chat_object, "text")
                    extra == get(chat_object, "extra")
                IN  [components |->
                         IF extra.some /\ extra.val.t = "array"
                         THEN Append(rest, [comp |-> extra.val,
                                            style |-> style])
                         ELSE rest,
                     str |->
                         IF own.some /\ own.val.t = "string"
                         THEN apply_styles(own.val.s, str, style)
                         ELSE str]
          [] comp.t = "array" ->
                [components |-> push_siblings(rest, comp.a, top.style),
                 str |-> str]
          [] OTHER ->
                [components |-> rest,
                 str |-> apply_styles(to_string(comp), str, top.style)]

\* while let Some((comp, style)) = components.pop() { ... }
RECURSIVE parse_component_loop(_, _)
parse_component_loop(components, str) ==
    IF components = <<>> THEN str
    ELSE parse_component_loop(parse_component_turn(components, str).components,
                              parse_component_turn(components, str).str)

parse_component(component) ==
    parse_component_loop(<<[comp |-> component, style |-> StyleDefault]>>, <<>>)

chat_to_str(component) == parse_component(component)

(* styled_string.to_string(): the Display of a ColoredString of the colored *)
(* crate.  It writes the text alone when colors are off (no terminal, or    *)
(* NO_COLOR) or the string has no style; otherwise ESC [ codes m, the text, *)
(* and the reset ESC [ 0 m, with the codes written again after every reset  *)
(* the text holds itself.                                                   *)

\* ESC [ 0 m
RESET == <<27, 91, 48, 109>>

\* a u8 in decimal
Decimal(n) ==
    IF n >= 100
    THEN <<48 + (n \div 100), 48 + ((n \div 10) % 10), 48 + (n % 10)>>
    ELSE IF n >= 10 THEN <<48 + (n \div 10), 48 + (n % 10)>>
    ELSE <<48 + n>>

\* the parts joined by semicolons
RECURSIVE join(_)
join(parts) ==
    IF parts = <<>> THEN <<>>
    ELSE IF Len(parts) = 1 THEN parts[1]
    ELSE parts[1] \o <<59>> \o join(Tail(parts))

\* bold 1, underline 4, italic 3, blink 5, strikethrough 9, then the
\* foreground color 38;2;r;g;b
style_codes(style) ==
    (IF style.bold THEN <<(<<49>>)>> ELSE <<>>)
        \o (IF style.underline THEN <<(<<52>>)>> ELSE <<>>)
        \o (IF style.italic THEN <<(<<51>>)>> ELSE <<>>)
        \o (IF style.obfuscated THEN <<(<<53>>)>> ELSE <<>>)
        \o (IF style.strikethrough THEN <<(<<57>>)>> ELSE <<>>)
        \o (IF style.color.some
            THEN <<(<<51, 56>>), (<<50>>), Decimal(style.color.val.red),
                   Decimal(style.color.val.green),
                   Decimal(style.color.val.blue)>>
            ELSE <<>>)

compute_style(style) == <<27, 91>> \o join(style_codes(style)) \o <<109>>

\* the text with the codes written after each reset in it
RECURSIVE escape_inner_reset_sequences(_, _)
escape_inner_reset_sequences(input, codes) ==
    IF input = <<>> THEN <<>>
    ELSE IF Len(input) >= Len(RESET) /\ SubSeq(input, 1, Len(RESET)) = RESET
    THEN RESET \o codes
            \o escape_inner_reset_sequences(
                   SubSeq(input, Len(RESET) + 1, Len(input)), codes)
    ELSE <<Head(input)>> \o escape_inner_reset_sequences(Tail(input), codes)

\* the reset is left out
fmt_unclosed(styled_string, has_colors) ==
    IF ~has_colors \/ styled_string.style = StyleDefault
    THEN styled_string.text
    ELSE compute_style(styled_string.style) \o styled_string.text

\* the codes are written also when colors are off
fmt_always(styled_string, has_colors) ==
    IF styled_string.style = StyleDefault THEN styled_string.text
    ELSE compute_style(styled_string.style)
            \o escape_inner_reset_sequences(
                   styled_string.text, compute_style(styled_string.style))
            \o RESET

fmt(styled_string, has_colors) ==
    IF ~has_colors \/ styled_string.style = StyleDefault
    THEN styled_string.text
    ELSE compute_style(styled_string.style)
            \o escape_inner_reset_sequences(
                   styled_string.text, compute_style(styled_string.style))
            \o RESET

\* the characters of the String the strings were pushed to
RECURSIVE as_str(_, _)
as_str(str, has_colors) ==
    IF str = <<>> THEN <<>>
    ELSE fmt(Head(str), has_colors) \o as_str(Tail(str), has_colors)

-----------------------------------------------------------------------------
(* arguments.rs: the command line.  An argument is a string of code points, *)
(* args the sequence the iterator yields, the name of the executable first. *)

\* the arguments before any is parsed
DefaultArguments ==
    [raw_response |-> FALSE, verbose |-> FALSE, open_to_lan |-> FALSE,
     get_favicon |-> FALSE, host |-> <<>>, port |-> 25565]

\* flag.starts_with('-')
starts_with_dash(flag) == flag # <<>> /\ flag[1] = 45

\* the decimal digits as a number
RECURSIVE digits_value(_)
digits_value(digits) ==
    IF digits = <<>> THEN 0
    ELSE digits_value(SubSeq(digits, 1, Len(digits) - 1)) * 10
            + (digits[Len(digits)] - 48)

\* every string is the default port
parse_port_ignored(port) == Ok(25565)

\* port.parse::<u16>(): a plus sign may come first, then at least one digit
\* and only digits, and the number fits 16 bits
parse_port(port) ==
    LET digits == IF port # <<>> /\ port[1] = 43 THEN Tail(port) ELSE port
    IN  IF digits = <<>> \/ \E i \in 1..Len(digits) : digits[i] \notin 48..57
        THEN Err("Invalid port")
        ELSE IF digits_value(digits) > 65535 THEN Err("Invalid port")
        ELSE Ok(digits_value(digits))

\* the flags: what the loop leaves when it peeks at args[i]
RECURSIVE parse_flags(_, _, _)
parse_flags(args, i, parsed) ==
    IF i > Len(args) \/ ~starts_with_dash(args[i])
    THEN [ok |-> TRUE, val |-> parsed, next |-> i]
    ELSE CASE args[i] \in {<<45, 118>>, <<45, 45, 118, 101, 114, 98, 111, 115, 101>>} ->
                parse_flags(args, i + 1, [parsed EXCEPT !.verbose = TRUE])
           [] args[i] \in {<<45, 102>>, <<45, 45, 102, 97, 118, 105, 99, 111, 110>>} ->
                parse_flags(args, i + 1, [parsed EXCEPT !.get_favicon = TRUE])
           [] args[i] \in {<<45, 114>>, <<45, 45, 114, 97, 119, 45, 114, 101, 115, 112, 111, 110, 115, 101>>} ->
                parse_flags(args, i + 1, [parsed EXCEPT !.raw_response = TRUE])
           [] args[i] \in {<<45, 108>>, <<45, 45, 108, 97, 110>>} ->
                parse_flags(args, i + 1, [parsed EXCEPT !.open_to_lan = TRUE])
           [] OTHER -> Err("Unrecognized flag")

\* nothing is counted
count_nothing(args, i) == 0

\* args.count(): the arguments from args[i] on
count(args, i) == IF i > Len(args) THEN 0 ELSE Len(args) - i + 1

\* the address: host, then the port when there is one
parse_address(args, i, parsed) ==
    IF i > Len(args) THEN Err("No address provided")
    ELSE IF i + 1 > Len(args)
    THEN [ok |-> TRUE, val |-> [parsed EXCEPT !.host = args[i]], next |-> i + 1]
    ELSE IF parse_port(args[i + 1]).ok
    THEN [ok |-> TRUE,
          val |-> [parsed EXCEPT !.host = args[i],
                                 !.port = parse_port(args[i + 1]).val],
          next |-> i + 2]
    ELSE Err("Invalid port")

\* the mode: Open to LAN needs no address and excludes the favicon
and_then_parse_mode(args, flags) ==
    IF ~flags.ok THEN flags
    ELSE IF flags.val.open_to_lan
    THEN (IF flags.val.get_favicon THEN Err("-f is incompatible with -l")
          ELSE flags)
    ELSE parse_address(args, flags.next, flags.val)

\* there should be no more arguments to parse
and_then_no_more(args, mode) ==
    IF ~mode.ok THEN mode
    ELSE IF count(args, mode.next) # 0 THEN Err("Invalid arguments")
    ELSE Ok(mode.val)

\* CommandLineArguments::parse; args.skip(1) starts at the second argument
parse(args) ==
    and_then_no_more(args,
        and_then_parse_mode(args, parse_flags(args, 2, DefaultArguments)))

-----------------------------------------------------------------------------
(* main.rs: the listener for games opened to the LAN.  A datagram and the  *)
(* strs cut from it are sequences of bytes, the UTF-8 encoding of their   *)
(* characters.                                                             *)

\* "[MOTD]", "[/AD]" and "[/MOTD][AD]"
MOTD_OPEN == <<91, 77, 79, 84, 68, 93>>
AD_CLOSE == <<91, 47, 65, 68, 93>>
MOTD_AD == <<91, 47, 77, 79, 84, 68, 93, 91, 65, 68, 93>>

\* the characters with the property White_Space, encoded
WHITE_SPACE ==
    {<<b>> : b \in 9..13 \cup {32}}
        \cup {<<194, 133>>, <<194, 160>>, <<225, 154, 128>>}
        \cup {<<226, 128, b>> : b \in 128..138 \cup {168, 169, 175}}
        \cup {<<226, 129, 159>>, <<227, 128, 128>>}

\* the first two characters of the pattern are enough
starts_with_two(s, pat) ==
    Len(s) >= 2 /\ Len(pat) >= 2 /\ SubSeq(s, 1, 2) = SubSeq(pat, 1, 2)

starts_with(s, pat) ==
    Len(s) >= Len(pat) /\ SubSeq(s, 1, Len(pat)) = pat

ends_with(s, pat) ==
    Len(s) >= Len(pat) /\ SubSeq(s, Len(s) - Len(pat) + 1, Len(s)) = pat

RECURSIVE trim_start(_)
trim_start(s) ==
    IF \E w \in WHITE_SPACE : starts_with(s, w)
    THEN trim_start(SubSeq(s, 1 + Len(CHOOSE w \in WHITE_SPACE : starts_with(s, w)),
                           Len(s)))
    ELSE s

RECURSIVE trim_end(_)
trim_end(s) ==
    IF \E w \in WHITE_SPACE : ends_with(s, w)
    THEN trim_end(SubSeq(s, 1, Len(s) - Len(CHOOSE w \in WHITE_SPACE : ends_with(s, w))))
    ELSE s

\* str::trim
trim(s) == trim_end(trim_start(s))

\* &s[begin..end]: the bytes after the first begin up to the first end;
\* a panic when the range is not in the str or cuts a character
slice(s, begin, end) ==
    LET is_char_boundary(i) ==
            i = 0 \/ i = Len(s) \/ (i < Len(s) /\ ~IsCont(s[i + 1]))
    IN  IF begin <= end /\ end <= Len(s)
           /\ is_char_boundary(begin) /\ is_char_boundary(end)
        THEN Ok(SubSeq(s, begin + 1, end))
        ELSE Err("panic")

\* the str is cut at the first delimiter only
split_first(s, pat) ==
    LET found == {i \in 1..(Len(s) - Len(pat) + 1) :
                     SubSeq(s, i, i + Len(pat) - 1) = pat}
        first == CHOOSE i \in found : \A j \in found : i <= j
    IN  IF found = {} THEN <<s>>
        ELSE <<SubSeq(s, 1, first - 1), SubSeq(s, first + Len(pat), Len(s))>>

\* str::split(pat).collect(): the parts between the matches of the pattern,
\* found from the left, none overlapping another
RECURSIVE split(_, _)
split(s, pat) ==
    LET found == {i \in 1..(Len(s) - Len(pat) + 1) :
                     SubSeq(s, i, i + Len(pat) - 1) = pat}
        first == CHOOSE i \in found : \A j \in found : i <= j
    IN  IF found = {} THEN <<s>>
        ELSE <<SubSeq(s, 1, first - 1)>>
                \o split(SubSeq(s, first + Len(pat), Len(s)), pat)

\* what the loop does with one datagram: "continue" (skipped), "ignored"
\* (the format is not valid), "announce" with the message, its motd and
\* its port, or "panic"
Handled(kind, message, motd, port) ==
    [kind |-> kind, message |-> message, motd |-> motd, port |-> port]

\* the parts of the message between "[MOTD]" and "[/AD]"
and_then_split(message, trimmed_message) ==
    IF ~trimmed_message.ok THEN Handled("panic", message, <<>>, <<>>)
    ELSE LET parts == split(trimmed_message.val, MOTD_AD)
         IN  IF Len(parts) < 2 THEN Handled("continue", message, <<>>, <<>>)
             ELSE IF Len(parts) - 2 # 0
                  THEN Handled("continue", message, <<>>, <<>>)
                  ELSE Handled("announce", message, parts[1], parts[2])

\* the message of a datagram that is a str
parse_message(message) ==
    IF starts_with(message, MOTD_OPEN) /\ ends_with(message, AD_CLOSE)
    THEN and_then_split(message,
             slice(message, Len(MOTD_OPEN), Len(message) - Len(AD_CLOSE)))
    ELSE Handled("ignored", message, <<>>, <<>>)

\* the body of the loop for the packet received
parse_packet(buffer_portion) ==
    IF from_utf8(buffer_portion).ok
    THEN parse_message(trim(as_bytes(from_utf8(buffer_portion).val)))
    ELSE Handled("continue", <<>>, <<>>, <<>>)

-----------------------------------------------------------------------------
(* The codec operations applied to bounded inputs *)

Boundaries == {2^(7 * j) : j \in 0..4}

VarIntValues ==
    {0, 25565, I32_MAX, I32_MIN}
    \cup {b + d : b \in Boundaries, d \in (-MaxDelta)..MaxDelta}
    \cup {-(b + d) : b \in Boundaries, d \in (-MaxDelta)..MaxDelta}
    \cup {I32_MAX - d : d \in 0..MaxDelta}
    \cup {I32_MIN + d : d \in 0..MaxDelta}

\* bytes that may follow an encoded value in the source
Tails == {<<>>, <<0>>, <<129, 1>>}

\* one character of each UTF-8 length: A, e-acute, the euro sign, an emoji
Chars == {65, 233, 8364, 128512}

RECURSIVE SeqsUpTo(_, _)
SeqsUpTo(S, n) ==
    IF n = 0 THEN {<<>>}
    ELSE LET shorter == SeqsUpTo(S, n - 1)
         IN  shorter \cup {Append(s, x) : s \in shorter, x \in S}

\* strings whose length prefix takes two bytes
LongStrings == {[i \in 1..n |-> ch] : n \in {127, 128}, ch \in {65, 233}}

Strings == SeqsUpTo(Chars, MaxStrLen) \cup LongStrings

\* an i64 of the two 32-bit halves hi and lo
Long(hi, lo) == AsU32(lo) \o AsU32(hi)

Halves == {0, 1, -1, 16909060, I32_MAX, I32_MIN}

Longs == {Long(hi, lo) : hi \in Halves, lo \in Halves}

NoResult == [ok |-> FALSE, err |-> "none"]

NoArguments ==
    [host |-> <<>>, port |-> 0, verbose |-> FALSE, get_favicon |-> FALSE,
     raw_response |-> FALSE]

NoLocals ==
    [status_response_json |-> None, server_response |-> None,
     system_time_sec |-> None, start_time |-> None, payload |-> None]

\* no session runs
NoSession ==
    /\ arguments = NoArguments
    /\ session = NoLocals
    /\ now = 0
    /\ exit_code = "running"
    /\ stdout = <<>>
    /\ stderr = <<>>
    /\ trace = <<>>

InitCodec ==
    /\ \/ pc = "var_int" /\ value \in VarIntValues /\ text = <<>>
       \/ pc = "string" /\ value = 0 /\ text \in Strings
       \/ pc = "long" /\ value \in Longs /\ text = <<>>
    /\ writer = VecNew
    /\ reader = Source(<<>>, FALSE)
    /\ result = NoResult
    /\ NoSession

WriteVarInt ==
    /\ pc = "var_int"
    /\ result' = write_var_int(VecNew, value)
    /\ writer' = result'.out
    /\ pc' = "var_int_written"
    /\ UNCHANGED <<value, text, reader, sessionVars>>

ReadVarInt ==
    /\ pc = "var_int_written"
    /\ \E tail \in Tails :
         result' = read_var_int(Source(writer.wire \o tail, FALSE))
    /\ reader' = result'.src
    /\ pc' = "var_int_read"
    /\ UNCHANGED <<value, text, writer, sessionVars>>

WriteString ==
    /\ pc = "string"
    /\ result' = write_string(VecNew, text)
    /\ writer' = result'.out
    /\ pc' = "string_written"
    /\ UNCHANGED <<value, text, reader, sessionVars>>

ReadString ==
    /\ pc = "string_written"
    /\ \E tail \in Tails :
         result' = read_string(Source(writer.wire \o tail, FALSE))
    /\ reader' = result'.src
    /\ pc' = "string_read"
    /\ UNCHANGED <<value, text, writer, sessionVars>>

WriteLong ==
    /\ pc = "long"
    /\ result' = write_long(VecNew, value)
    /\ writer' = result'.out
    /\ pc' = "long_written"
    /\ UNCHANGED <<value, text, reader, sessionVars>>

\* the bytes written are read back, followed by further bytes or cut short
ReadLong ==
    /\ pc = "long_written"
    /\ \E stream \in {writer.wire \o tail : tail \in Tails}
                     \cup {SubSeq(writer.wire, 1, k) : k \in 0..7},
          fail \in BOOLEAN :
         result' = read_long(Source(stream, fail))
    /\ reader' = result'.src
    /\ pc' = "long_read"
    /\ UNCHANGED <<value, text, writer, sessionVars>>

NextCodec ==
    \/ WriteVarInt
    \/ ReadVarInt
    \/ WriteString
    \/ ReadString
    \/ WriteLong
    \/ ReadLong

SpecCodec == InitCodec /\ [][NextCodec]_vars

-----------------------------------------------------------------------------
(* The packet readers applied to the byte streams a peer may send *)

\* packet IDs as a peer may encode them: 0, 1, 2, 0 and 1 in two bytes, -1
IdEncodings ==
    {<<0>>, <<1>>, <<2>>, <<128, 0>>, <<129, 0>>, <<255, 255, 255, 255, 15>>}

\* what may follow the ID of a status packet: "", "A", "AB", e-acute, a
\* byte that is no UTF-8, a string longer than the bytes that follow, a
\* negative string length
StringFields ==
    {<<0>>, <<1, 65>>, <<2, 65, 66>>, <<2, 195, 169>>, <<1, 255>>, <<5, 65>>,
     <<255, 255, 255, 255, 15>>}

\* what may follow the ID of a pong packet: eight bytes, or seven
LongFields ==
    {<<0, 0, 0, 0, 0, 0, 0, 0>>, <<0, 0, 0, 0, 101, 83, 241, 0>>,
     <<255, 255, 255, 255, 255, 255, 255, 255>>, <<0, 0, 0, 0, 0, 0, 1>>}

Bodies == {id \o f : id \in IdEncodings, f \in StringFields \cup LongFields}

\* the length prefixes a peer may put before a body: the length of the body
\* and the lengths near it, a negative length, a prefix of six bytes
LengthPrefixes(body) ==
    {write_var_int(VecNew, Len(body) + d).out.wire :
        d \in {e \in (-MaxSlack)..MaxSlack : Len(body) + e >= 0}}
    \cup {<<255, 255, 255, 255, 15>>, <<128, 128, 128, 128, 128, 0>>}

Extras == {[i \in 1..n |-> 0] : n \in 0..MaxExtra}

Prefixes(s) == {SubSeq(s, 1, k) : k \in 0..Len(s)}

\* every stream: a length prefix, a body, further bytes, cut anywhere
PeerStreams ==
    UNION {UNION {Prefixes(l \o b \o x) : l \in LengthPrefixes(b), x \in Extras} :
             b \in Bodies}

InitFramer ==
    /\ pc = "packet"
    /\ value = 0
    /\ text = <<>>
    /\ writer = VecNew
    /\ \E stream \in PeerStreams, fail \in BOOLEAN :
         reader = Source(stream, fail)
    /\ result = NoResult
    /\ NoSession

ReadStatusResponse ==
    /\ pc = "packet"
    /\ result' = read_status_response(reader)
    /\ reader' = result'.src
    /\ pc' = "status_read"
    /\ UNCHANGED <<value, text, writer, sessionVars>>

ReadPongResponse ==
    /\ pc = "packet"
    /\ result' = read_pong_response(reader)
    /\ reader' = result'.src
    /\ pc' = "pong_read"
    /\ UNCHANGED <<value, text, writer, sessionVars>>

NextFramer ==
    \/ ReadStatusResponse
    \/ ReadPongResponse

SpecFramer == InitFramer /\ [][NextFramer]_vars

-----------------------------------------------------------------------------
(* One run of do_server_list_ping against a peer *)

\* "mc" and e-acute
Hosts == {<<109, 99>>, <<233>>}

Ports == {25565}

\* what SystemTime::now() may give, in seconds since the epoch
Times == {0, 1700000000}

Flags ==
    [verbose : BOOLEAN, get_favicon : BOOLEAN, raw_response : BOOLEAN]

\* a packet as a peer frames it: the length of the ID and the field, the ID,
\* the field
Framed(id, field) ==
    write_var_int(VecNew, Len(id) + Len(field)).out.wire \o id \o field

\* the peer's status response: a document, rightly framed; or one with an
\* unexpected ID, with a byte beyond its field, or cut short
StatusPackets ==
    {Framed(<<0>>, write_string(VecNew, d.text).out.wire) : d \in Documents}
    \cup {Framed(<<1>>, write_string(VecNew, DocFull.text).out.wire),
          Framed(<<0>>, write_string(VecNew, DocFull.text).out.wire \o <<0>>),
          <<3, 0>>}

\* the peer's pong: a time echoed, rightly framed; or one with an unexpected
\* ID, with a byte beyond its field, or cut short
PongPackets ==
    {Framed(<<1>>, to_be_bytes(I64(t))) : t \in Times}
    \cup {Framed(<<0>>, to_be_bytes(I64(0))),
          Framed(<<1>>, to_be_bytes(I64(0)) \o <<0>>),
          <<9, 1, 0>>, <<>>}

\* the connection: sound, or one that fails once it took `room` bytes
Connections ==
    {[wire |-> <<>>, buf |-> <<>>, buffered |-> TRUE, failing |-> FALSE,
      room |-> 0]}
    \cup {[wire |-> <<>>, buf |-> <<>>, buffered |-> TRUE, failing |-> TRUE,
           room |-> r] : r \in 0..MaxRoom}

Init ==
    /\ pc = "resolve"
    /\ value = 0
    /\ text = <<>>
    /\ result = NoResult
    /\ \E host \in Hosts, port \in Ports, f \in Flags :
         arguments = [host |-> host, port |-> port, verbose |-> f.verbose,
                      get_favicon |-> f.get_favicon,
                      raw_response |-> f.raw_response]
    /\ \/ /\ writer \in Connections
          /\ reader = Source(Framed(<<0>>, write_string(VecNew, DocFull.text).out.wire)
                             \o Framed(<<1>>, to_be_bytes(I64(0))), FALSE)
       \/ /\ writer \in {c \in Connections : ~c.failing}
          /\ \E s \in StatusPackets, p \in PongPackets, fail \in BOOLEAN :
               reader = Source(s \o p, fail)
    /\ session = NoLocals
    /\ now = 0
    /\ exit_code = "running"
    /\ stdout = <<>>
    /\ stderr = <<>>
    /\ trace = <<>>

\* (host, port).to_socket_addrs(): the resolver is not the program's
ResolveAddress ==
    /\ pc = "resolve"
    /\ \E resolved \in BOOLEAN :
         IF resolved
         THEN /\ pc' = "connect"
              /\ stderr' = print_line_verbose(stderr, "Attempting to connect...")
              /\ UNCHANGED exit_code
         ELSE /\ pc' = "done"
              /\ stderr' = Append(stderr, "Invalid address")
              /\ exit_code' = "IncorrectParameters"
    /\ UNCHANGED <<value, text, writer, reader, result, arguments, session,
                   now, stdout, trace>>

\* TcpStream::connect(address)
Connect ==
    /\ pc = "connect"
    /\ \E connected \in BOOLEAN :
         IF connected
         THEN /\ pc' = "send_handshake"
              /\ stderr' = print_line_verbose(stderr, "Connection established")
              /\ UNCHANGED exit_code
         ELSE /\ pc' = "done"
              /\ stderr' = Append(stderr, "Could not connect to server")
              /\ exit_code' = "HostDoesNotExist"
    /\ now' = now + 1
    /\ UNCHANGED <<value, text, writer, reader, result, arguments, session,
                   stdout, trace>>

SendHandshake ==
    /\ pc = "send_handshake"
    /\ result' = send_handshake(writer, arguments.host, arguments.port)
    /\ writer' = IF result'.ok THEN result'.out ELSE drop(result'.out)
    /\ trace' = Append(trace, "send_handshake")
    /\ now' = now + 1
    /\ IF result'.ok
       THEN /\ pc' = "send_status_request"
            /\ stderr' = print_line_verbose(stderr, "Handshake request sent!")
            /\ UNCHANGED exit_code
       ELSE /\ pc' = "done"
            /\ stderr' = Append(stderr, "Error: Could not send handshake")
            /\ exit_code' = "Protocol"
    /\ UNCHANGED <<value, text, reader, arguments, session, stdout>>

\* a failed status request is passed over
SendStatusRequestUnchecked ==
    /\ pc = "send_status_request"
    /\ result' = send_status_request(writer)
    /\ writer' = result'.out
    /\ trace' = Append(trace, "send_status_request")
    /\ now' = now + 1
    /\ pc' = "read_status_response"
    /\ stderr' = print_line_verbose(stderr, "Status request sent!")
    /\ UNCHANGED <<value, text, reader, arguments, session, stdout, exit_code>>

SendStatusRequest ==
    /\ pc = "send_status_request"
    /\ result' = send_status_request(writer)
    /\ writer' = IF result'.ok THEN result'.out ELSE drop(result'.out)
    /\ trace' = Append(trace, "send_status_request")
    /\ now' = now + 1
    /\ IF result'.ok
       THEN /\ pc' = "read_status_response"
            /\ stderr' = print_line_verbose(stderr, "Status request sent!")
            /\ UNCHANGED exit_code
       ELSE /\ pc' = "done"
            /\ stderr' = Append(stderr, "Error: Could not send status request")
            /\ exit_code' = "Protocol"
    /\ UNCHANGED <<value, text, reader, arguments, session, stdout>>

ReceiveStatusResponse ==
    /\ pc = "read_status_response"
    /\ result' = read_status_response(reader)
    /\ reader' = result'.src
    /\ trace' = Append(trace, "read_status_response")
    /\ now' = now + 1
    /\ IF result'.ok
       THEN /\ pc' = "deserialize"
            /\ session' = [session EXCEPT
                             !.status_response_json = Some(result'.val)]
            /\ stderr' = print_line_verbose(stderr, "Received status response!")
            /\ UNCHANGED exit_code
       ELSE /\ pc' = "done"
            /\ stderr' = Append(stderr, "Error: Could not read status response")
            /\ exit_code' = "Protocol"
            /\ UNCHANGED session
    /\ UNCHANGED <<value, text, writer, arguments, stdout>>

DeserializeResponse ==
    /\ pc = "deserialize"
    /\ result' = from_str(session.status_response_json.val)
    /\ IF result'.ok
       THEN /\ pc' = "send_ping_request"
            /\ session' = [session EXCEPT !.server_response = Some(result'.val)]
            /\ UNCHANGED <<stderr, exit_code>>
       ELSE /\ pc' = "done"
            /\ stderr' = Append(stderr, "Error: Could not decode response because it has malformed JSON data")
            /\ exit_code' = "Protocol"
            /\ UNCHANGED session
    /\ UNCHANGED <<value, text, writer, reader, arguments, now, stdout, trace>>

\* the time is taken once the request was flushed
SendPingRequest ==
    /\ pc = "send_ping_request"
    /\ \E t \in Times :
         /\ result' = send_ping_request(writer, I64(t))
         /\ IF result'.ok
            THEN session' = [session EXCEPT !.system_time_sec = Some(I64(t)),
                                            !.start_time = Some(now + 1)]
            ELSE session' = [session EXCEPT !.system_time_sec = Some(I64(t))]
    /\ writer' = IF result'.ok THEN result'.out ELSE drop(result'.out)
    /\ trace' = Append(trace, "send_ping_request")
    /\ now' = now + 1
    /\ IF result'.ok
       THEN /\ pc' = "read_pong_response"
            /\ stderr' = print_line_verbose(stderr, "Sent ping request!")
            /\ UNCHANGED exit_code
       ELSE /\ pc' = "done"
            /\ stderr' = Append(stderr, "Error: Could not send ping request")
            /\ exit_code' = "Protocol"
    /\ UNCHANGED <<value, text, reader, arguments, stdout>>

ReceivePongResponse ==
    /\ pc = "read_pong_response"
    /\ result' = read_pong_response(reader)
    /\ reader' = result'.src
    /\ trace' = Append(trace, "read_pong_response")
    /\ now' = now + 1
    /\ IF result'.ok
       THEN /\ pc' = "report"
            /\ session' = [session EXCEPT !.payload = Some(result'.val)]
            /\ UNCHANGED <<stderr, exit_code>>
       ELSE /\ pc' = "done"
            /\ stderr' = Append(stderr, "Error: Could not read pong response")
            /\ exit_code' = "Protocol"
            /\ UNCHANGED session
    /\ UNCHANGED <<value, text, writer, arguments, stdout>>

\* if let Some(favicon) = server_response.favicon { ... }: the favicons of
\* the documents are absent or empty
favicon_output(out, err, response) ==
    [out |-> out,
     err |-> Append(err, "Warning: This server doesn't have a favicon.")]

\* the lines of the response, the two player counts exchanged
response_output_swapped(out, response, elapsed) ==
    out \o <<[line |-> "Server version", val |-> response.version.name],
             [line |-> "Protocol", val |-> response.version.protocol],
             [line |-> "Players",
              val |-> <<response.players.max, response.players.online>>],
             [line |-> "Server latency", val |-> elapsed]>>

\* the lines of the parsed response
response_output(out, response, elapsed) ==
    out \o <<[line |-> "description", val |-> response.description],
             [line |-> "Server version", val |-> response.version.name],
             [line |-> "Protocol", val |-> response.version.protocol],
             [line |-> "Players",
              val |-> <<response.players.online, response.players.max>>],
             [line |-> "Favicon",
              val |-> IF response.favicon.some /\ response.favicon.val # <<>>
                      THEN "(Base64 data)" ELSE "(No data available)"],
             [line |-> "Enforces secure chat",
              val |-> IF response.enforces_secure_chat.some
                         /\ response.enforces_secure_chat.val
                      THEN "Yes" ELSE "No"],
             [line |-> "Previews chat",
              val |-> IF response.previews_chat.some
                         /\ response.previews_chat.val
                      THEN "Yes" ELSE "No"],
             [line |-> "Server latency", val |-> elapsed]>>

\* the pong is taken for the echo of any ping
i64_ne_never(a, b) == FALSE

\* payload != system_time_sec
i64_ne(a, b) == a # b

\* the payload is compared; the response and the latency are printed
Report ==
    /\ pc = "report"
    /\ pc' = "done"
    /\ IF i64_ne(session.payload.val, session.system_time_sec.val)
       THEN /\ stderr' = Append(stderr, "Error: the server's pong response is an invalid value")
            /\ exit_code' = "Protocol"
            /\ UNCHANGED stdout
       ELSE LET response_elapsed_time == now - session.start_time.val
                verbose == print_line_verbose(
                               print_line_verbose(
                                   print_line_verbose(stderr,
                                       "Received pong response!"),
                                   "Delay"),
                               "Disconnected")
            IN  /\ exit_code' = "Ok"
                /\ IF arguments.get_favicon
                   THEN LET f == favicon_output(stdout, verbose,
                                                session.server_response.val)
                        IN  stdout' = f.out /\ stderr' = f.err
                   ELSE IF arguments.raw_response
                   THEN /\ stdout' = Append(stdout,
                                [line |-> "raw",
                                 val |-> session.status_response_json.val])
                        /\ stderr' = verbose
                   ELSE /\ stdout' = response_output(stdout,
                                         session.server_response.val,
                                         response_elapsed_time)
                        /\ stderr' = verbose
    /\ UNCHANGED <<value, text, writer, reader, result, arguments, session,
                   now, trace>>

Next ==
    \/ ResolveAddress
    \/ Connect
    \/ SendHandshake
    \/ SendStatusRequest
    \/ ReceiveStatusResponse
    \/ DeserializeResponse
    \/ SendPingRequest
    \/ ReceivePongResponse
    \/ Report

Spec == Init /\ [][Next]_vars

\* the positions of a session
Steps ==
    {"resolve", "connect", "send_handshake", "send_status_request",
     "read_status_response", "deserialize", "send_ping_request",
     "read_pong_response", "report", "done"}

\* a step of the session: each one moves pc, and one can be taken at every
\* position but the terminal one
Proceed == pc # "done" /\ pc' \in Steps \ {pc}

\* the program is sequential and every call on the connection returns (the
\* peer has sent its bytes or closed the stream): the session goes on until
\* it is done
FairSpec == Spec /\ WF_pc(Proceed)

-----------------------------------------------------------------------------
(* The packet senders applied to bounded inputs *)

PortValues == {0, 255, 256, 25565, 65535}

\* a sender is handed a host and a port, or a payload, and a connection
InitSender ==
    /\ value = 0
    /\ text = <<>>
    /\ reader = Source(<<>>, FALSE)
    /\ result = NoResult
    /\ writer \in Connections
    /\ \/ /\ pc = "handshake"
          /\ \E host \in Strings, port \in PortValues :
               arguments = [NoArguments EXCEPT !.host = host, !.port = port]
          /\ session = NoLocals
       \/ /\ pc = "status_request"
          /\ arguments = NoArguments
          /\ session = NoLocals
       \/ /\ pc = "ping_request"
          /\ arguments = NoArguments
          /\ \E payload \in Longs :
               session = [NoLocals EXCEPT !.system_time_sec = Some(payload)]
    /\ now = 0
    /\ exit_code = "running"
    /\ stdout = <<>>
    /\ stderr = <<>>
    /\ trace = <<>>

HandshakeSender ==
    /\ pc = "handshake"
    /\ result' = send_handshake(writer, arguments.host, arguments.port)
    /\ writer' = result'.out
    /\ pc' = "handshake_sent"
    /\ UNCHANGED <<value, text, reader, sessionVars>>

StatusRequestSender ==
    /\ pc = "status_request"
    /\ result' = send_status_request(writer)
    /\ writer' = result'.out
    /\ pc' = "status_request_sent"
    /\ UNCHANGED <<value, text, reader, sessionVars>>

PingRequestSender ==
    /\ pc = "ping_request"
    /\ result' = send_ping_request(writer, session.system_time_sec.val)
    /\ writer' = result'.out
    /\ pc' = "ping_request_sent"
    /\ UNCHANGED <<value, text, reader, sessionVars>>

NextSender ==
    \/ HandshakeSender
    \/ StatusRequestSender
    \/ PingRequestSender

SpecSender == InitSender /\ [][NextSender]_vars

-----------------------------------------------------------------------------
(* The decoders applied to the byte streams a source may hold *)

\* runs of bytes with the continuation bit set, and what may follow a run
Runs == {[i \in 1..n |-> c] : n \in 0..MaxRun, c \in {128, 255}}

RunEnds == {<<>>, <<0>>, <<1, 127>>, <<127>>, <<15>>}

\* fifth bytes without the continuation bit: payload bits below and above
\* bit 3, the last one that fits in 32 bits
FifthBytes == {0, 1, 7, 8, 15, 16, 17, 31, 64, 112, 127}

VarIntStreams ==
    {r \o e : r \in Runs, e \in RunEnds}
        \cup {<<a, b, 128, 255, e>> \o x :
                 a \in {128, 129, 255}, b \in {128, 170}, e \in FifthBytes,
                 x \in {<<>>, <<0>>}}

\* the length prefixes of a string: 0 to 3, 1 in two bytes, -1, i32::MIN
StringPrefixes ==
    {<<0>>, <<1>>, <<2>>, <<3>>, <<129, 0>>, <<255, 255, 255, 255, 15>>,
     <<128, 128, 128, 128, 8>>}

\* A, the two bytes of e-acute, a byte that UTF-8 never holds
PayloadBytes == {65, 195, 169, 255}

StringStreams ==
    {l \o b : l \in StringPrefixes, b \in SeqsUpTo(PayloadBytes, MaxPayload)}

InitDecoder ==
    /\ value = 0
    /\ text = <<>>
    /\ writer = VecNew
    /\ result = NoResult
    /\ \/ /\ pc = "var_int_bytes"
          /\ \E stream \in VarIntStreams, fail \in BOOLEAN :
               reader = Source(stream, fail)
       \/ /\ pc = "string_bytes"
          /\ \E stream \in StringStreams, fail \in BOOLEAN :
               reader = Source(stream, fail)
    /\ NoSession

DecodeVarInt ==
    /\ pc = "var_int_bytes"
    /\ result' = read_var_int(reader)
    /\ reader' = result'.src
    /\ pc' = "var_int_decoded"
    /\ UNCHANGED <<value, text, writer, sessionVars>>

DecodeString ==
    /\ pc = "string_bytes"
    /\ result' = read_string(reader)
    /\ reader' = result'.src
    /\ pc' = "string_decoded"
    /\ UNCHANGED <<value, text, writer, sessionVars>>

NextDecoder ==
    \/ DecodeVarInt
    \/ DecodeString

SpecDecoder == InitDecoder /\ [][NextDecoder]_vars

-----------------------------------------------------------------------------
(* The renderer applied to bounded chat components *)

\* the longest array of siblings
MaxSiblings == 2

\* "A", "B§lC", "§cD§rE", "§l§oF§"
ChatTexts ==
    {<<65>>, <<66, 167, 108, 67>>, <<167, 99, 68, 167, 114, 69>>,
     <<167, 108, 167, 111, 70, 167>>}

Leaves ==
    {Null, Bool(TRUE), Bool(FALSE), Number(<<52, 53, 46, 54>>)}
        \cup {String(s) : s \in ChatTexts}

\* the style properties of an object: none, flags set and cleared, a named,
\* a web and an unknown color ("nocolor"), a flag that is not a boolean, and
\* the color "#+11111"
StyleMembers ==
    {<<>>,
     <<Member("bold", Bool(TRUE))>>,
     <<Member("bold", Bool(FALSE))>>,
     <<Member("color", String(<<114, 101, 100>>))>>,
     <<Member("italic", Bool(TRUE)), Member("color", String(<<35, 48, 97, 48, 66, 48, 99>>))>>,
     <<Member("underlined", Bool(TRUE)), Member("strikethrough", Bool(TRUE)),
       Member("obfuscated", Bool(TRUE))>>,
     <<Member("bold", String(<<116, 114, 117, 101>>))>>,
     <<Member("color", String(<<110, 111, 99, 111, 108, 111, 114>>))>>,
     <<Member("color", String(<<35, 43, 49, 49, 49, 49, 49>>))>>}

\* the text of an object: missing, a string, or not a string
\* ("A", "§cD§rE", "H§zI", "G" ESC "[0mH")
ObjectTexts ==
    {<<>>, <<Member("text", String(<<65>>))>>,
     <<Member("text", String(<<167, 99, 68, 167, 114, 69>>))>>,
     <<Member("text", String(<<72, 167, 122, 73>>))>>,
     <<Member("text", String(<<71, 27, 91, 48, 109, 72>>))>>,
     <<Member("text", Bool(TRUE))>>}

LeafObjects == {Object(m \o t) : m \in StyleMembers, t \in ObjectTexts}

\* the style properties of an object that has an extra
ParentMembers ==
    {<<>>,
     <<Member("bold", Bool(TRUE)), Member("color", String(<<114, 101, 100>>))>>,
     <<Member("italic", Bool(TRUE)), Member("underlined", Bool(TRUE)),
       Member("strikethrough", Bool(TRUE)), Member("obfuscated", Bool(TRUE))>>}

Elements ==
    {Null, Number(<<52, 53, 46, 54>>), String(<<65>>), String(<<66, 167, 108, 67>>),
     Object(<<Member("text", String(<<167, 99, 68, 167, 114, 69>>))>>),
     Object(<<Member("text", String(<<65>>)), Member("bold", Bool(FALSE)),
              Member("color", String(<<110, 111, 99, 111, 108, 111, 114>>))>>),
     Object(<<Member("text", String(<<65>>)),
              Member("bold", String(<<116, 114, 117, 101>>)),
              Member("color", Number(<<52, 53, 46, 54>>))>>)}

Siblings == SeqsUpTo(Elements, MaxSiblings)

\* arrays, objects with an extra array and objects whose extra is no array
Nested ==
    {Array(a) : a \in Siblings}
        \cup {Object(m \o t \o <<Member("extra", Array(a))>>) :
                 m \in ParentMembers,
                 t \in {<<>>, <<Member("text", String(<<66, 167, 108, 67>>))>>},
                 a \in Siblings}
        \cup {Object(m \o <<Member("text", String(<<65>>)),
                            Member("extra", String(<<66, 167, 108, 67>>))>>) :
                 m \in ParentMembers}

\* one level more: an extra and an array of arrays that hold a nested value
DeeplyNested ==
    {Object(m \o t \o <<Member("extra", Array(<<n, String(<<65>>)>>))>>) :
        m \in ParentMembers,
        t \in {<<>>, <<Member("text", String(<<167, 99, 68, 167, 114, 69>>))>>},
        n \in Nested}
        \cup {Array(<<Array(<<n>>), String(<<66, 167, 108, 67>>)>>) : n \in Nested}

Components == Leaves \cup LeafObjects \cup Nested \cup DeeplyNested

InitChat ==
    /\ pc = "chat"
    /\ value \in Components
    /\ text = <<>>
    /\ writer = VecNew
    /\ reader = Source(<<>>, FALSE)
    /\ result = NoResult
    /\ NoSession

\* has_colors: whether the colored crate colorizes in this environment
ChatToStr ==
    /\ pc = "chat"
    /\ \E has_colors \in BOOLEAN :
         /\ result' = [ok |-> TRUE, val |-> chat_to_str(value),
                       has_colors |-> has_colors]
         /\ text' = as_str(result'.val, has_colors)
    /\ pc' = "chat_rendered"
    /\ UNCHANGED <<value, writer, reader, sessionVars>>

NextChat == ChatToStr

SpecChat == InitChat /\ [][NextChat]_vars

-----------------------------------------------------------------------------
(* The loop of parse_component, turn by turn.  result holds the locals: the *)
(* stack components, the String str, and popped, the components popped so  *)
(* far (a history of the loop, not a variable of the code).                 *)

InitParse ==
    /\ pc = "parse_component"
    /\ value \in Components
    /\ text = <<>>
    /\ writer = VecNew
    /\ reader = Source(<<>>, FALSE)
    /\ result = [components |-> <<[comp |-> value, style |-> StyleDefault]>>,
                 str |-> <<>>, popped |-> <<>>]
    /\ NoSession

\* the locals after one turn of the loop
turn(locals) ==
    [components |-> parse_component_turn(locals.components, locals.str).components,
     str |-> parse_component_turn(locals.components, locals.str).str,
     popped |-> Append(locals.popped,
                       locals.components[Len(locals.components)].comp)]

\* components.pop() is Some: the body of the loop
PopComponent ==
    /\ pc = "parse_component"
    /\ result.components # <<>>
    /\ result' = turn(result)
    /\ UNCHANGED <<pc, value, text, writer, reader, sessionVars>>

\* components.pop() is None: the loop ends and str is returned
ReturnStr ==
    /\ pc = "parse_component"
    /\ result.components = <<>>
    /\ pc' = "parse_component_returned"
    /\ UNCHANGED <<value, text, writer, reader, result, sessionVars>>

NextParse ==
    \/ PopComponent
    \/ ReturnStr

SpecParse == InitParse /\ [][NextParse]_vars

-----------------------------------------------------------------------------
(* parse_color applied to bounded color strings *)

\* the most characters after the number sign
MaxHexLen == 6

\* 1, a, F and the plus sign
HexChars == {49, 97, 70, 43}

\* red, dark_aqua, Red; no number sign; a minus sign, a letter that is no
\* digit, a blank, a letter of two bytes with four and with five digits
OtherColors ==
    {<<114, 101, 100>>, <<100, 97, 114, 107, 95, 97, 113, 117, 97>>, <<82, 101, 100>>, <<>>, <<49, 97, 49, 97, 49, 97, 49>>, <<35, 45, 49, 97, 49, 97, 49>>, <<35, 49, 97, 49, 97, 49, 103>>, <<35, 49, 97, 32, 49, 97, 49>>,
     <<35, 233, 49, 97, 49, 97>>, <<35, 233, 49, 97, 49, 97, 49>>}

ColorStrings ==
    {<<35>> \o digits : digits \in SeqsUpTo(HexChars, MaxHexLen)}
        \cup OtherColors

InitColor ==
    /\ pc = "parse_color"
    /\ text \in ColorStrings
    /\ value = 0
    /\ writer = VecNew
    /\ reader = Source(<<>>, FALSE)
    /\ result = NoResult
    /\ NoSession

ParseColor ==
    /\ pc = "parse_color"
    /\ result' = parse_color(text)
    /\ pc' = "color_parsed"
    /\ UNCHANGED <<value, text, writer, reader, sessionVars>>

NextColor == ParseColor

SpecColor == InitColor /\ [][NextColor]_vars

-----------------------------------------------------------------------------
(* parse applied to bounded command lines *)

\* the most arguments after the name of the executable
MaxArgs == 3

\* -v, --verbose, -f, -r, --lan, -x, a dash alone; mc, the empty string,
\* 25560, +80, 65536
Tokens ==
    {<<45, 118>>,
     <<45, 45, 118, 101, 114, 98, 111, 115, 101>>,
     <<45, 102>>,
     <<45, 114>>,
     <<45, 45, 108, 97, 110>>,
     <<45, 120>>,
     <<45>>,
     <<109, 99>>,
     <<>>,
     <<50, 53, 53, 54, 48>>,
     <<43, 56, 48>>,
     <<54, 53, 53, 51, 54>>}

CommandLines == {<<(<<46, 47, 99, 111, 109, 109, 97, 110, 100>>)>> \o a : a \in SeqsUpTo(Tokens, MaxArgs)} \cup {<<>>}

InitArguments ==
    /\ pc = "parse"
    /\ value = 0
    /\ text \in CommandLines
    /\ writer = VecNew
    /\ reader = Source(<<>>, FALSE)
    /\ result = NoResult
    /\ NoSession

Parse ==
    /\ pc = "parse"
    /\ result' = parse(text)
    /\ pc' = "parsed"
    /\ UNCHANGED <<value, text, writer, reader, sessionVars>>

NextArguments == Parse

SpecArguments == InitArguments /\ [][NextArguments]_vars

-----------------------------------------------------------------------------
(* write_var_int applied to sinks that may fail *)

\* the most bytes a failing sink takes
MaxSinkRoom == 5

\* a Vec, and sinks that fail once they took room bytes
Sinks ==
    {VecNew}
        \cup {[wire |-> <<>>, buf |-> <<>>, buffered |-> FALSE,
               failing |-> TRUE, room |-> r] : r \in 0..MaxSinkRoom}

InitVarIntWriter ==
    /\ pc = "write_var_int"
    /\ value \in VarIntValues
    /\ text = <<>>
    /\ writer \in Sinks
    /\ reader = Source(<<>>, FALSE)
    /\ result = NoResult
    /\ NoSession

WriteVarIntToSink ==
    /\ pc = "write_var_int"
    /\ result' = write_var_int(writer, value)
    /\ writer' = result'.out
    /\ pc' = "write_var_int_returned"
    /\ UNCHANGED <<value, text, reader, sessionVars>>

NextVarIntWriter == WriteVarIntToSink

SpecVarIntWriter == InitVarIntWriter /\ [][NextVarIntWriter]_vars

-----------------------------------------------------------------------------
(* The old system of apply_styles, turn by turn.  text holds the str of     *)
(* one text run and value the style of its component; result holds the     *)
(* locals: i, the position of str_iter, the String out and the style of    *)
(* the old system.                                                         *)

\* the most control sequences in the strings generated from LegacyCodes
MaxCodes == 2

\* control characters tried one after the other: colors, the five styles,
\* the reset, an upper case letter, a section sign and a letter without meaning
LegacyCodes == {48, 57, 97, 102} \cup 107..111 \cup {114, 76, 167, 122}

\* the pieces of text between control sequences: nothing, or "U"
RECURSIVE Markup(_, _)
Markup(codes, filler) ==
    IF codes = <<>> THEN <<>>
    ELSE <<SECTION_SIGN, Head(codes)>> \o filler \o Markup(Tail(codes), filler)

\* strings of up to MaxCodes control sequences with and without text around
\* them and a section sign at the end, and every character from the space
\* to the tilde, and the section sign, as the control character that comes
\* after the codes l c and after the codes k m n o 1
LegacyStrings ==
    {first \o Markup(codes, filler) \o last :
        first \in {<<>>, <<84>>}, codes \in SeqsUpTo(LegacyCodes, MaxCodes),
        filler \in {<<>>, <<85>>}, last \in {<<>>, <<SECTION_SIGN>>}}
      \cup {Markup(before \o <<c>>, <<85>>) :
               before \in {<<108, 99>>, <<107, 109, 110, 111, 49>>},
               c \in 32..126 \cup {SECTION_SIGN}}

\* the style of the component: none, or bold and red
ComponentStyles ==
    {StyleDefault,
     [StyleDefault EXCEPT !.bold = TRUE, !.color = Some(Color(255, 85, 85))]}

InitLegacy ==
    /\ pc = "apply_styles"
    /\ text \in LegacyStrings
    /\ value \in ComponentStyles
    /\ writer = VecNew
    /\ reader = Source(<<>>, FALSE)
    /\ result = NoResult
    /\ NoSession

\* the locals when the loop of the old system is reached: the text before
\* the first section sign is pushed with the style of the component
new_system(str, style) ==
    [i |-> take_while(str, 1).next,
     out |-> push_str(<<>>, take_while(str, 1).text, style),
     style |-> StyleDefault]

\* the locals after one turn of the loop of the old system
old_system_turn(str, locals) ==
    [i |-> take_while(str, locals.i + 1).next,
     out |-> push_str(locals.out, take_while(str, locals.i + 1).text,
                      control_sequence_style(locals.style, str[locals.i])),
     style |-> control_sequence_style(locals.style, str[locals.i])]

NewSystem ==
    /\ pc = "apply_styles"
    /\ result' = new_system(text, value)
    /\ pc' = "old_system"
    /\ UNCHANGED <<value, text, writer, reader, sessionVars>>

\* str_iter.next() is Some: the body of the loop
ControlSequence ==
    /\ pc = "old_system"
    /\ result.i <= Len(text)
    /\ result' = old_system_turn(text, result)
    /\ UNCHANGED <<pc, value, text, writer, reader, sessionVars>>

\* str_iter.next() is None: the loop ends
EndOfString ==
    /\ pc = "old_system"
    /\ result.i > Len(text)
    /\ pc' = "apply_styles_returned"
    /\ UNCHANGED <<value, text, writer, reader, result, sessionVars>>

NextLegacy ==
    \/ NewSystem
    \/ ControlSequence
    \/ EndOfString

SpecLegacy == InitLegacy /\ [][NextLegacy]_vars

-----------------------------------------------------------------------------
(* The listener for games opened to the LAN, packet by packet.  text     *)
(* holds the bytes of the last packet, result what recv_from returned and  *)
(* value the number of packets received.                                   *)

\* the most packets one run receives
MaxPackets == 2

\* the packets that arrive:
\*   [MOTD]a[/MOTD][AD]1[/AD]
\*   [MOTD][/MOTD][AD][/AD]  (no motd and no port)
\*   [MOTD]§la[/MOTD][AD]25565[/AD]  (a motd with a section sign)
\*    [MOTD]a[/MOTD][AD]1[/AD]\n  (white space at both ends)
\*   NBSP[MOTD]a[/MOTD][AD]1[/AD]LSEP  (a no-break space and a line separator at the ends)
\*   [MOTD] a [/MOTD][AD] 1 [/AD]  (white space inside)
\*   [MOTD]a[/MOTD][AD]1[/MOTD][AD]2[/AD]  (two delimiters)
\*   [MOTD][/MOTD][AD][/MOTD][AD][/AD]  (two delimiters and nothing else)
\*   [MOTD]a[/AD]  (no delimiter)
\*   [MOTD][/AD]  (no delimiter, eleven bytes)
\*   [MOTD]a[/MOTD] [AD]1[/AD]  (a broken delimiter)
\*   a[MOTD]a[/MOTD][AD]1[/AD]  (text before)
\*   [MOTD]a[/MOTD][AD]1[/AD]a  (text after)
\*   [MOTD]a[/MOTD][AD]1  (no end)
\*   a[/MOTD][AD]1[/AD]  (no start)
\*   [/MOTD][AD][MOTD]a[/AD]  (the delimiter in front)
\*   [motd]a[/motd][ad]1[/ad]  (lower case)
\*   [MOTD]
\*   [/AD]
\*   [/MOTD][AD]
\*     (empty)
\*    
\*   a
\*   <255>[MOTD]a[/MOTD][AD]1[/AD]  (not UTF-8: a byte 255 in front)
\*   [MOTD]a<195>[/MOTD][AD]1[/AD]  (not UTF-8: a character cut short)
\*   [MOTD]a[/MOTD][AD]1[/AD]<128>  (not UTF-8: a continuation byte at the end)
Datagrams ==
    {
     <<91, 77, 79, 84, 68, 93, 97, 91, 47, 77, 79, 84, 68, 93, 91, 65, 68, 93, 49, 91, 47, 65, 68, 93>>,
     <<91, 77, 79, 84, 68, 93, 91, 47, 77, 79, 84, 68, 93, 91, 65, 68, 93, 91, 47, 65, 68, 93>>,
     <<91, 77, 79, 84, 68, 93, 194, 167, 108, 97, 91, 47, 77, 79, 84, 68, 93, 91, 65, 68, 93, 50, 53, 53, 54, 53, 91, 47, 65, 68, 93>>,
     <<32, 91, 77, 79, 84, 68, 93, 97, 91, 47, 77, 79, 84, 68, 93, 91, 65, 68, 93, 49, 91, 47, 65, 68, 93, 10>>,
     <<194, 160, 91, 77, 79, 84, 68, 93, 97, 91, 47, 77, 79, 84, 68, 93, 91, 65, 68, 93, 49, 91, 47, 65, 68, 93, 226, 128, 168>>,
     <<91, 77, 79, 84, 68, 93, 32, 97, 32, 91, 47, 77, 79, 84, 68, 93, 91, 65, 68, 93, 32, 49, 32, 91, 47, 65, 68, 93>>,
     <<91, 77, 79, 84, 68, 93, 97, 91, 47, 77, 79, 84, 68, 93, 91, 65, 68, 93, 49, 91, 47, 77, 79, 84, 68, 93, 91, 65, 68, 93, 50, 91, 47, 65, 68, 93>>,
     <<91, 77, 79, 84, 68, 93, 91, 47, 77, 79, 84, 68, 93, 91, 65, 68, 93, 91, 47, 77, 79, 84, 68, 93, 91, 65, 68, 93, 91, 47, 65, 68, 93>>,
     <<91, 77, 79, 84, 68, 93, 97, 91, 47, 65, 68, 93>>,
     <<91, 77, 79, 84, 68, 93, 91, 47, 65, 68, 93>>,
     <<91, 77, 79, 84, 68, 93, 97, 91, 47, 77, 79, 84, 68, 93, 32, 91, 65, 68, 93, 49, 91, 47, 65, 68, 93>>,
     <<97, 91, 77, 79, 84, 68, 93, 97, 91, 47, 77, 79, 84, 68, 93, 91, 65, 68, 93, 49, 91, 47, 65, 68, 93>>,
     <<91, 77, 79, 84, 68, 93, 97, 91, 47, 77, 79, 84, 68, 93, 91, 65, 68, 93, 49, 91, 47, 65, 68, 93, 97>>,
     <<91, 77, 79, 84, 68, 93, 97, 91, 47, 77, 79, 84, 68, 93, 91, 65, 68, 93, 49>>,
     <<97, 91, 47, 77, 79, 84, 68, 93, 91, 65, 68, 93, 49, 91, 47, 65, 68, 93>>,
     <<91, 47, 77, 79, 84, 68, 93, 91, 65, 68, 93, 91, 77, 79, 84, 68, 93, 97, 91, 47, 65, 68, 93>>,
     <<91, 109, 111, 116, 100, 93, 97, 91, 47, 109, 111, 116, 100, 93, 91, 97, 100, 93, 49, 91, 47, 97, 100, 93>>,
     <<91, 77, 79, 84, 68, 93>>,
     <<91, 47, 65, 68, 93>>,
     <<91, 47, 77, 79, 84, 68, 93, 91, 65, 68, 93>>,
     <<>>,
     <<32>>,
     <<97>>,
     <<255, 91, 77, 79, 84, 68, 93, 97, 91, 47, 77, 79, 84, 68, 93, 91, 65, 68, 93, 49, 91, 47, 65, 68, 93>>,
     <<91, 77, 79, 84, 68, 93, 97, 195, 91, 47, 77, 79, 84, 68, 93, 91, 65, 68, 93, 49, 91, 47, 65, 68, 93>>,
     <<91, 77, 79, 84, 68, 93, 97, 91, 47, 77, 79, 84, 68, 93, 91, 65, 68, 93, 49, 91, 47, 65, 68, 93, 128>>
    }

InitLan ==
    /\ pc = "bind"
    /\ \E verbose \in BOOLEAN, raw_response \in BOOLEAN :
         arguments = [NoArguments EXCEPT !.verbose = verbose,
                                         !.raw_response = raw_response]
    /\ value = 0
    /\ text = <<>>
    /\ writer = VecNew
    /\ reader = Source(<<>>, FALSE)
    /\ result = NoResult
    /\ session = NoLocals
    /\ now = 0
    /\ exit_code = "running"
    /\ stdout = <<>>
    /\ stderr = <<>>
    /\ trace = <<>>

\* UdpSocket::bind
BindSocket ==
    /\ pc = "bind"
    /\ \E bound \in BOOLEAN :
         IF bound
         THEN /\ pc' = "join_multicast_v4"
              /\ stderr' = print_line_verbose(
                               print_line_verbose(stderr, "Attempting to bind"),
                               "Socket bind successful")
              /\ UNCHANGED exit_code
         ELSE /\ pc' = "done"
              /\ stderr' = Append(print_line_verbose(stderr, "Attempting to bind"),
                                  "Error: Could not bind socket")
              /\ exit_code' = "Protocol"
    /\ UNCHANGED <<value, text, writer, reader, result, arguments, session,
                   now, stdout, trace>>

\* socket.join_multicast_v4
JoinMulticast ==
    /\ pc = "join_multicast_v4"
    /\ \E joined \in BOOLEAN :
         IF joined
         THEN /\ pc' = "recv_from"
              /\ stderr' = print_line_verbose(
                               print_line_verbose(
                                   print_line_verbose(stderr,
                                       "Attempting to join multicast"),
                                   "Joined multicast grop successfully"),
                               "Listening for incoming packets...")
              /\ UNCHANGED exit_code
         ELSE /\ pc' = "done"
              /\ stderr' = Append(print_line_verbose(stderr,
                                      "Attempting to join multicast"),
                                  "Error: Could not join multicast")
              /\ exit_code' = "Protocol"
    /\ UNCHANGED <<value, text, writer, reader, result, arguments, session,
                   now, stdout, trace>>

\* the lines printed for a message: the message itself, or the motd as
\* given to chat::parse_string, the port after the address of the sender, and
\* an empty line
announcement(out, handled) ==
    IF arguments.raw_response
    THEN Append(out, [line |-> "raw", val |-> handled.message])
    ELSE out \o <<[line |-> "parse_string", val |-> handled.motd],
                  [line |-> "Available at", val |-> handled.port],
                  [line |-> "", val |-> <<>>]>>

\* the state of the run after the body of the loop: left is whether
\* socket.leave_multicast_v4 succeeds
after_packet(handled, left) ==
    CASE handled.kind = "continue" ->
            [pc |-> "recv_from", stdout |-> stdout, stderr |-> stderr,
             exit_code |-> exit_code]
      [] handled.kind = "ignored" ->
            [pc |-> "recv_from", stdout |-> stdout,
             stderr |-> print_line_verbose(stderr, "Ignored packet"),
             exit_code |-> exit_code]
      [] handled.kind = "panic" ->
            [pc |-> "done", stdout |-> stdout,
             stderr |-> Append(stderr, "panicked"), exit_code |-> "panic"]
      [] handled.kind = "announce" ->
            [pc |-> "done", stdout |-> announcement(stdout, handled),
             stderr |-> IF left
                        THEN print_line_verbose(
                                 print_line_verbose(stderr, "Received a packet"),
                                 "Left multicast group")
                        ELSE Append(Append(
                                 print_line_verbose(stderr, "Received a packet"),
                                 "There was an error when attempting to leave multicast group"),
                                 "e"),
             exit_code |-> IF left THEN "Ok" ELSE "Protocol"]

\* socket.recv_from is Ok: the body of the loop
ReceivePacket ==
    /\ pc = "recv_from"
    /\ value < MaxPackets
    /\ \E datagram \in Datagrams, left \in BOOLEAN :
         /\ result' = Ok(datagram)
         /\ text' = datagram
         /\ pc' = after_packet(parse_packet(datagram), left).pc
         /\ stdout' = after_packet(parse_packet(datagram), left).stdout
         /\ stderr' = after_packet(parse_packet(datagram), left).stderr
         /\ exit_code' = after_packet(parse_packet(datagram), left).exit_code
    /\ value' = value + 1
    /\ UNCHANGED <<writer, reader, arguments, session, now, trace>>

\* socket.recv_from is Err
ReceiveError ==
    /\ pc = "recv_from"
    /\ result' = Err("e")
    /\ pc' = "done"
    /\ stderr' = Append(Append(stderr,
                     "Error: I/O error when reading incoming data from a multicast socket"),
                     "e")
    /\ exit_code' = "Protocol"
    /\ UNCHANGED <<value, text, writer, reader, arguments, session, now,
                   stdout, trace>>

NextLan ==
    \/ BindSocket
    \/ JoinMulticast
    \/ ReceivePacket
    \/ ReceiveError

SpecLan == InitLan /\ [][NextLan]_vars

-----------------------------------------------------------------------------
(* The body of the listener's loop applied to bounded packets *)

\* the most parts between the start and the end of a generated message
MaxInner == 2

\* the parts of a str that are in one piece, the empty one among them
Pieces(s) == {SubSeq(s, i, j) : i \in 1..(Len(s) + 1), j \in 0..Len(s)}

RECURSIVE Flat(_)
Flat(parts) == IF parts = <<>> THEN <<>> ELSE Head(parts) \o Flat(Tail(parts))

\* what stands between the start and the end: "a", the section sign, the
\* delimiter
Inner ==
    {Flat(parts) : parts \in SeqsUpTo({<<97>>, <<194, 167>>, MOTD_AD}, MaxInner)}

\* a piece of "[MOTD]", an inner part and a piece of "[/AD]", with and
\* without white space around them, and a byte that UTF-8 never holds
Packets ==
    {lead \o open \o inner \o close \o trail :
        lead \in {<<>>, <<32>>}, open \in Pieces(MOTD_OPEN), inner \in Inner,
        close \in Pieces(AD_CLOSE), trail \in {<<>>, <<13, 10>>, <<255>>}}

InitPacket ==
    /\ pc = "packet_received"
    /\ text \in Packets
    /\ value = 0
    /\ writer = VecNew
    /\ reader = Source(<<>>, FALSE)
    /\ result = NoResult
    /\ NoSession

ParsePacket ==
    /\ pc = "packet_received"
    /\ result' = parse_packet(text)
    /\ pc' = "packet_parsed"
    /\ UNCHANGED <<value, text, writer, reader, sessionVars>>

NextPacket == ParsePacket

SpecPacket == InitPacket /\ [][NextPacket]_vars

-----------------------------------------------------------------------------
(* Properties of the codec *)

\* C1: VarInt round trip.  For every i32 value v, read_var_int applied to the
\* bytes write_var_int(v) produced (whatever bytes follow them in the source)
\* returns exactly v and consumes exactly the bytes that were written.
VarIntRoundTrip ==
    /\ pc \in {"var_int_written", "var_int_read"} => result.ok
    /\ pc = "var_int_read" =>
          /\ result.val = value
          /\ reader.pos = Len(writer.wire)

\* the round trip of i32::MIN, read from a source that holds further bytes
VarIntRoundTripWitness ==
    /\ pc = "var_int_read"
    /\ value = I32_MIN
    /\ result.ok /\ result.val = I32_MIN
    /\ reader.pos = 5 /\ Len(reader.data) > reader.pos

\* the number of 7-bit groups that reach the highest set bit of the 32-bit
\* pattern of v (one group for 0)
GroupCount(v) ==
    LET x == AsU32(v)
        set == {i \in 0..31 : x[i + 1] = 1}
    IN  IF set = {} THEN 1
        ELSE ((CHOOSE i \in set : \A j \in set : j <= i) \div 7) + 1

\* the k-th group (k from 0) of the pattern of v, as a number
Group(v, k) ==
    LET x == AsU32(v)
        bit(j) == IF 7 * k + j <= 31 THEN x[7 * k + j + 1] ELSE 0
    IN  bit(0) + 2 * bit(1) + 4 * bit(2) + 8 * bit(3) + 16 * bit(4)
        + 32 * bit(5) + 64 * bit(6)

\* the shortest little-endian base-128 encoding of v
ShortestEncoding(v) ==
    [k \in 1..GroupCount(v) |->
        Group(v, k - 1) + (IF k < GroupCount(v) THEN 128 ELSE 0)]

KnownEncodings ==
    {<<0, <<0>>>>, <<127, <<127>>>>, <<128, <<128, 1>>>>,
     <<25565, <<221, 199, 1>>>>, <<I32_MAX, <<255, 255, 255, 255, 7>>>>,
     <<-1, <<255, 255, 255, 255, 15>>>>,
     <<I32_MIN, <<128, 128, 128, 128, 8>>>>}

\* C2: write_var_int emits the shortest little-endian base-128 encoding of
\* the 32-bit two's complement pattern of the value: one byte for 0, else as
\* many 7-bit groups as reach the highest set bit; 0 -> 00, 127 -> 7F,
\* 128 -> 80 01, 25565 -> DD C7 01, i32::MAX -> FF FF FF FF 07,
\* -1 -> FF FF FF FF 0F, i32::MIN -> 80 80 80 80 08.
WriteVarIntShortest ==
    pc \in {"var_int_written", "var_int_read"} =>
        /\ writer.wire = ShortestEncoding(value)
        /\ \A e \in KnownEncodings : value = e[1] => writer.wire = e[2]

\* -1 was written as FF FF FF FF 0F
WriteVarIntShortestWitness ==
    /\ pc = "var_int_written"
    /\ value = -1
    /\ writer.wire = <<255, 255, 255, 255, 15>>

\* the number of bytes the UTF-8 encoding of a character takes
Utf8Width(c) ==
    IF c < 128 THEN 1 ELSE IF c < 2048 THEN 2 ELSE IF c < 65536 THEN 3 ELSE 4

RECURSIVE Utf8Length(_)
\* the number of bytes the UTF-8 encoding of a string takes
Utf8Length(s) ==
    IF s = <<>> THEN 0
    ELSE IF Len(s) = 1 THEN Utf8Width(s[1])
    ELSE LET h == Len(s) \div 2
         IN  Utf8Length(SubSeq(s, 1, h)) + Utf8Length(SubSeq(s, h + 1, Len(s)))

\* C3: WireString round trip.  write_string emits a VarInt equal to the UTF-8
\* byte length of the string (not its character count) followed by exactly
\* those bytes, read_string on that output returns the string, and the empty
\* string is the single byte 00.
StringRoundTrip ==
    /\ pc \in {"string_written", "string_read"} =>
          LET prefix == read_var_int(Source(writer.wire, FALSE))
          IN  /\ result.ok
              /\ prefix.ok
              /\ prefix.val = Utf8Length(text)
              /\ SubSeq(writer.wire, prefix.src.pos + 1, Len(writer.wire))
                    = as_bytes(text)
              /\ Len(writer.wire) = prefix.src.pos + Utf8Length(text)
              /\ (text = <<>> => writer.wire = <<0>>)
    /\ pc = "string_read" =>
          /\ result.val = text
          /\ reader.pos = Len(writer.wire)

\* a string of 128 two-byte characters (256 bytes, a two-byte length prefix)
\* made the round trip
StringRoundTripWitness ==
    /\ pc = "string_read"
    /\ Len(text) = 128 /\ text[1] = 233
    /\ Len(writer.wire) = 2 + 256
    /\ result.ok /\ result.val = text

-----------------------------------------------------------------------------
(* Properties of the packet readers.  The packet as the peer laid it out   *)
(* is decoded from the whole stream, without any restriction to the        *)
(* declared length, and compared with what the reader returned.            *)

PacketRead == pc \in {"status_read", "pong_read"}

ExpectedId == IF pc = "status_read" THEN 0 ELSE 1

\* the packet at the head of the stream: the length it declares, the packet
\* ID that follows the length, the field that follows the ID (the JSON
\* string of a status packet, the long of a pong packet) and, for a status
\* packet, the length prefix of the string
Layout ==
    LET stream == Source(reader.data, FALSE)
        declared == read_var_int(stream)
        after_length == declared.src
        id == read_var_int(after_length)
        after_id == id.src
        field == IF pc = "status_read"
                 THEN read_string(after_id) ELSE read_long(after_id)
        size == read_var_int(after_id)
    IN  [declared |-> declared, id |-> id, field |-> field, size |-> size]

\* the stream holds a length, a packet ID and the expected field
WellLaidOut(p) ==
    /\ p.declared.ok /\ p.declared.val >= 0
    /\ p.id.ok
    /\ p.field.ok

\* the number of bytes the packet ID and the expected field occupy
Occupied(p) == p.field.src.pos - p.declared.src.pos

\* the position in the stream where the declared packet ends
PacketEnd(p) == p.declared.src.pos + p.declared.val

\* C4: framer integrity.  A packet reader returns a payload only if the
\* declared packet length equals the number of bytes the packet ID and the
\* expected field occupy, for every byte stream, also one that ends early.
FramerIntegrity ==
    PacketRead /\ result.ok =>
        LET p == Layout
        IN  WellLaidOut(p) /\ p.declared.val = Occupied(p)

\* C5: trailing data is an error.  If the packet ID and the expected field
\* decode and unread bytes remain in the stream inside the declared packet
\* length, the reader returns an error and no payload.
TrailingDataIsError ==
    PacketRead =>
        LET p == Layout
        IN  /\ WellLaidOut(p)
            /\ p.id.val = ExpectedId
            /\ Occupied(p) < p.declared.val
            /\ Len(reader.data) > p.field.src.pos
            => /\ ~result.ok
               /\ result.err = "could not deserialize packet"

\* a status packet with the ID 0, the string "A" and one more byte inside
\* the declared length was refused
TrailingDataWitness ==
    /\ pc = "status_read"
    /\ LET p == Layout
       IN  /\ WellLaidOut(p)
           /\ p.id.val = 0 /\ p.field.val = <<65>>
           /\ p.declared.val = Occupied(p) + 1
           /\ Len(reader.data) > p.field.src.pos
    /\ ~result.ok /\ result.err = "could not deserialize packet"

\* the string of a status packet announces more bytes than the packet holds
\* after the string's length prefix
StringOverrunsPacket(p) ==
    /\ pc = "status_read"
    /\ p.declared.ok /\ p.declared.val >= 0
    /\ p.id.ok /\ p.id.val = 0
    /\ p.size.ok /\ p.size.val >= 0
    /\ p.size.src.pos <= PacketEnd(p)
    /\ p.size.src.pos + p.size.val > PacketEnd(p)

\* C6: a reader never reads past the declared packet length.  It consumes
\* at most the bytes of the length prefix plus the declared length, and a
\* string that announces more bytes than the packet holds makes the read
\* fail instead of consuming bytes that follow the packet.
NeverReadsPastPacket ==
    PacketRead =>
        LET p == Layout
        IN  /\ reader.pos <= p.declared.src.pos
                             + (IF p.declared.ok /\ p.declared.val >= 0
                                THEN p.declared.val ELSE 0)
            /\ (StringOverrunsPacket(p) => ~result.ok)

\* a string announced more bytes than its packet held while the stream held
\* further bytes: the read failed at the end of the packet
NeverReadsPastPacketWitness ==
    /\ pc = "status_read"
    /\ LET p == Layout
       IN  /\ StringOverrunsPacket(p)
           /\ Len(reader.data) > PacketEnd(p)
           /\ reader.pos = PacketEnd(p)
    /\ ~result.ok

\* C7: unexpected packet ID.  read_status_response fails whenever the packet
\* ID is not 0 and read_pong_response whenever it is not 1, whatever the rest
\* of the packet; nothing after the ID is read and no field is returned.
UnexpectedPacketId ==
    PacketRead =>
        LET p == Layout
        IN  /\ p.declared.ok /\ p.declared.val >= 0
            /\ p.id.ok /\ p.id.val # ExpectedId
            => /\ ~result.ok
               /\ (p.id.src.pos <= PacketEnd(p) =>
                      /\ result.err = "unknown packet ID"
                      /\ reader.pos = p.id.src.pos)

\* a well-formed packet with the ID 0 was refused by read_pong_response
UnexpectedPacketIdWitness ==
    /\ pc = "pong_read"
    /\ LET p == Layout
       IN  /\ WellLaidOut(p)
           /\ p.id.val = 0
           /\ p.declared.val = Occupied(p)
    /\ ~result.ok /\ result.err = "unknown packet ID"

-----------------------------------------------------------------------------
(* Properties of the session *)

IsPrefix(a, b) == Len(a) <= Len(b) /\ a = SubSeq(b, 1, Len(a))

Range(f) == {f[i] : i \in DOMAIN f}

\* the I/O calls of a session, in the order of the protocol
SessionOrder ==
    <<"send_handshake", "send_status_request", "read_status_response",
      "send_ping_request", "read_pong_response">>

\* the handshake packet for the host and the port of the arguments
HandshakePacket ==
    LET name == as_bytes(arguments.host)
        body == <<0, 0>> \o ShortestEncoding(Len(name)) \o name
                \o <<arguments.port \div 256, arguments.port % 256>> \o <<1>>
    IN  ShortestEncoding(Len(body)) \o body

StatusRequestPacket == <<1, 0>>

\* the ping packet, once the time it carries was taken
PingPacket ==
    IF session.system_time_sec.some
    THEN <<9, 1>> \o to_be_bytes(session.system_time_sec.val)
    ELSE <<>>

\* the packets that the calls of the trace `t` send
PacketsOf(t) ==
    (IF "send_handshake" \in Range(t) THEN HandshakePacket ELSE <<>>)
    \o (IF "send_status_request" \in Range(t) THEN StatusRequestPacket ELSE <<>>)
    \o (IF "send_ping_request" \in Range(t) THEN PingPacket ELSE <<>>)

\* C8: the session is strictly linear.  The bytes written to the connection
\* are, in this order, the handshake packet, the status-request packet and
\* the ping packet; the status response is read only after the status request
\* was flushed, the ping is written only after a status response was read,
\* the pong is read only after the ping was flushed; no step is skipped,
\* repeated or reordered.
StrictlyLinear ==
    LET requests == HandshakePacket \o StatusRequestPacket
    IN  /\ IsPrefix(trace, SessionOrder)
        /\ IsPrefix(writer.wire, requests \o PingPacket)
        /\ IsPrefix(writer.wire, PacketsOf(trace))
        /\ "read_status_response" \in Range(trace) =>
              IsPrefix(requests, writer.wire)
        /\ reader.pos > 0 => "read_status_response" \in Range(trace)
        /\ Len(writer.wire) > Len(requests) =>
              /\ session.status_response_json.some
              /\ "read_status_response" \in Range(trace)
        /\ "read_pong_response" \in Range(trace) =>
              /\ session.system_time_sec.some
              /\ writer.wire = requests \o PingPacket
        /\ exit_code = "Ok" =>
              /\ trace = SessionOrder
              /\ writer.wire = requests \o PingPacket

\* a session ran to its end: the five calls were made in order and the three
\* packets are on the wire
StrictlyLinearWitness ==
    /\ pc = "done" /\ exit_code = "Ok"
    /\ trace = SessionOrder
    /\ writer.wire = HandshakePacket \o StatusRequestPacket \o PingPacket
    /\ Len(writer.wire) = Len(HandshakePacket) + 12
    /\ reader.pos = Len(reader.data)

\* the eight bytes the ping carried, those the pong carried
PingBytes == SubSeq(writer.wire, Len(writer.wire) - 7, Len(writer.wire))

PongBytes == SubSeq(reader.data, reader.pos - 7, reader.pos)

LatencyReported == \E i \in DOMAIN stdout : stdout[i].line = "Server latency"

\* C9: pong mismatch.  If the 8-byte value of the pong packet differs from
\* the value sent in the ping packet, the session ends with a protocol error,
\* reports no latency and prints no status fields; a latency is reported only
\* when the echoed value equals the sent value.
PongMismatch ==
    /\ session.payload.some /\ PongBytes # PingBytes =>
          /\ stdout = <<>>
          /\ "Delay" \notin Range(stderr)
          /\ pc = "done" => exit_code = "Protocol"
    /\ LatencyReported =>
          /\ session.payload.some
          /\ PongBytes = PingBytes
          /\ exit_code = "Ok"

\* the peer echoed another time than the one sent: the session ended with a
\* protocol error and printed nothing
PongMismatchWitness ==
    /\ pc = "done"
    /\ session.payload.some
    /\ PongBytes # PingBytes
    /\ exit_code = "Protocol"
    /\ stdout = <<>>

\* a call on the connection or the decoding of the response failed
StepFailed == trace # <<>> /\ ~result.ok

\* C10: abort on failure.  If a send, a read or the decoding fails, the
\* session returns the protocol error at that step: no packet beyond those
\* of the calls made is on the wire, and from then on nothing is written,
\* nothing is read and no call is made again.
AbortOnFailure ==
    /\ [](StepFailed =>
            /\ pc = "done"
            /\ exit_code = "Protocol"
            /\ stdout = <<>>
            /\ IsPrefix(writer.wire, PacketsOf(trace)))
    /\ [][StepFailed => UNCHANGED <<writer, reader, trace, exit_code>>]_vars

\* the status response had an unexpected ID: the session ended there, with
\* the requests on the wire, no ping, and the rest of the stream unread
AbortOnFailureWitness ==
    /\ pc = "done" /\ exit_code = "Protocol"
    /\ ~result.ok /\ result.err = "unknown packet ID"
    /\ trace = SubSeq(SessionOrder, 1, 3)
    /\ writer.wire = HandshakePacket \o StatusRequestPacket
    /\ reader.pos < Len(reader.data)

\* the status packet a well-behaved peer sends for the document d
StatusPacketOf(d) ==
    LET field == ShortestEncoding(Len(d.text)) \o d.text
    IN  ShortestEncoding(1 + Len(field)) \o <<0>> \o field

\* the documents that hold a valid status
ValidDocuments == {d \in Documents : d.parsed.ok}

\* the peer answers the status request with one well-formed packet of ID 0
\* that holds the valid document d
GoodStatus(d) == d \in ValidDocuments /\ IsPrefix(StatusPacketOf(d), reader.data)

\* ... and answers the ping, which reached it, with one packet of ID 1 that
\* echoes its payload
GoodPong(d) ==
    /\ session.system_time_sec.some
    /\ writer.wire = HandshakePacket \o StatusRequestPacket \o PingPacket
    /\ reader.data = StatusPacketOf(d) \o <<9, 1>>
                     \o to_be_bytes(session.system_time_sec.val)

DefaultOutput == ~arguments.get_favicon /\ ~arguments.raw_response

\* the value printed on the line `name`, in a set
Printed(name) ==
    {stdout[i].val : i \in {j \in DOMAIN stdout : stdout[j].line = name}}

-----------------------------------------------------------------------------
(* Properties of the packet senders *)

\* the number of bytes of the VarInt that starts `bytes`
PrefixLen(bytes) ==
    LET ends == {i \in 1..Len(bytes) : bytes[i] < 128}
    IN  IF ends = {} THEN Len(bytes)
        ELSE CHOOSE i \in ends : \A j \in ends : i <= j

\* the number the first k bytes (k < 5) carry in base 128
RECURSIVE PrefixValue(_, _)
PrefixValue(bytes, k) ==
    IF k = 0 THEN 0
    ELSE (bytes[1] % 128) + 128 * PrefixValue(Tail(bytes), k - 1)

\* what follows the length prefix of the packet on the wire
BodySent == SubSeq(writer.wire, PrefixLen(writer.wire) + 1, Len(writer.wire))

\* a string as a WireString
WireString(s) == ShortestEncoding(Len(as_bytes(s))) \o as_bytes(s)

\* C12: handshake layout.  For every host string and port the body of the
\* packet send_handshake writes is, in order, the VarInt packet ID 0, the
\* VarInt protocol version 0, the host as a WireString, the port as two
\* big-endian bytes and the VarInt next state 1, with nothing before, between
\* or after these fields.
HandshakeLayout ==
    pc = "handshake_sent" /\ result.ok =>
        BodySent = <<0>> \o <<0>> \o WireString(arguments.host)
                   \o <<arguments.port \div 256, arguments.port % 256>>
                   \o <<1>>

\* the handshake for a host of 128 characters and the port 25565: the body
\* ends with the bytes 63 DD 01
HandshakeLayoutWitness ==
    /\ pc = "handshake_sent" /\ result.ok
    /\ Len(arguments.host) = 128
    /\ arguments.port = 25565
    /\ Len(BodySent) > 130
    /\ SubSeq(BodySent, Len(BodySent) - 2, Len(BodySent)) = <<99, 221, 1>>

\* the eight bytes of an i64, the most significant first
BigEndian(x) ==
    [k \in 1..8 |->
        LET bit(j) == x[8 * (8 - k) + j + 1]
        IN  bit(0) + 2 * bit(1) + 4 * bit(2) + 8 * bit(3) + 16 * bit(4)
            + 32 * bit(5) + 64 * bit(6) + 128 * bit(7)]

PacketSent == pc \in {"handshake_sent", "status_request_sent", "ping_request_sent"}

\* C13: length prefix on send.  Each packet a sender writes starts with a
\* VarInt equal to the number of bytes that follow it in the packet: the
\* handshake prefix is the length of its body for every host and port, the
\* status request is exactly 01 00, the ping is exactly 09 01 and the eight
\* bytes of the payload; the packet is flushed when the sender returns.
LengthPrefixOnSend ==
    PacketSent /\ result.ok =>
        /\ writer.buf = <<>>
        /\ PrefixLen(writer.wire) <= 2
        /\ PrefixValue(writer.wire, PrefixLen(writer.wire)) = Len(BodySent)
        /\ SubSeq(writer.wire, 1, PrefixLen(writer.wire))
              = ShortestEncoding(Len(BodySent))
        /\ pc = "status_request_sent" => writer.wire = <<1, 0>>
        /\ pc = "ping_request_sent" =>
              writer.wire = <<9, 1>> \o BigEndian(session.system_time_sec.val)

\* the handshake for a host of 128 characters: a body of 135 bytes behind
\* the prefix 87 01, all of it on the wire
LengthPrefixOnSendWitness ==
    /\ pc = "handshake_sent" /\ result.ok
    /\ Len(arguments.host) = 128
    /\ SubSeq(writer.wire, 1, 2) = <<135, 1>>
    /\ Len(writer.wire) = 137
    /\ writer.buf = <<>>

-----------------------------------------------------------------------------
(* Properties of the decoders *)

\* the number of bytes with the continuation bit set that start `bytes`
LeadingRun(bytes) ==
    LET stops == {i \in 1..Len(bytes) : bytes[i] < 128}
    IN  IF stops = {} THEN Len(bytes)
        ELSE (CHOOSE i \in stops : \A j \in stops : i <= j) - 1

\* C14: read_var_int rejects over-long input.  If the first five bytes of
\* the source all have the continuation bit set, read_var_int returns an
\* error having consumed exactly five bytes; it never consumes a sixth byte,
\* whatever follows.
OverLongVarIntRejected ==
    pc = "var_int_decoded" =>
        /\ reader.pos <= 5
        /\ LeadingRun(reader.data) >= 5 => ~result.ok /\ reader.pos = 5

\* the seven bytes FF of the test test_invalid_var_int_too_long were refused
\* with two of them unread
OverLongVarIntRejectedWitness ==
    /\ pc = "var_int_decoded"
    /\ reader.data = <<255, 255, 255, 255, 255, 255>> \o <<0>>
    /\ ~result.ok
    /\ reader.pos = 5

\* the error read_var_int returns when a sixth byte would be required
MalformedVarInt ==
    read_var_int(Source(<<128, 128, 128, 128, 128, 0>>, FALSE)).err

\* the source ends after 0 to 4 bytes that all have the continuation bit set
TruncatedVarInt ==
    /\ LeadingRun(reader.data) = Len(reader.data)
    /\ Len(reader.data) <= 4

\* C15: read_var_int on truncated input.  When the source ends after 0 to 4
\* bytes that all have the continuation bit set, read_var_int fails, with an
\* error that differs from the one it returns when a sixth byte would be
\* required.
TruncatedVarIntDistinguished ==
    pc = "var_int_decoded" /\ TruncatedVarInt =>
        /\ ~result.ok
        /\ result.err # MalformedVarInt

\* a valid UTF-8 byte sequence (of sequences of one or two bytes, the only
\* ones the payloads of the streams can hold)
RECURSIVE ValidUtf8(_)
ValidUtf8(bytes) ==
    IF bytes = <<>> THEN TRUE
    ELSE IF bytes[1] < 128 THEN ValidUtf8(Tail(bytes))
    ELSE IF bytes[1] \in 194..223 /\ Len(bytes) >= 2 /\ bytes[2] \in 128..191
    THEN ValidUtf8(Tail(Tail(bytes)))
    ELSE FALSE

\* the code points of a valid sequence of one- and two-byte sequences
RECURSIVE CodePoints(_)
CodePoints(bytes) ==
    IF bytes = <<>> THEN <<>>
    ELSE IF bytes[1] < 128 THEN <<bytes[1]>> \o CodePoints(Tail(bytes))
    ELSE <<(bytes[1] % 32) * 64 + (bytes[2] % 64)>>
         \o CodePoints(Tail(Tail(bytes)))

\* the length prefix of the stream, read on its own
StringSize == read_var_int(Source(reader.data, FALSE))

\* C16: read_string succeeds only if the VarInt length prefix is not
\* negative, at least that many bytes follow in the source and those bytes
\* are valid UTF-8 (it then returns their string); with a negative prefix it
\* fails without reading any payload byte, and with fewer bytes available
\* than declared it fails instead of returning a shorter string.
ReadStringChecks ==
    pc = "string_decoded" =>
        LET size == StringSize
            avail == Len(reader.data) - size.src.pos
            payload == SubSeq(reader.data, size.src.pos + 1,
                              size.src.pos + size.val)
        IN  /\ result.ok <=>
                  /\ size.ok /\ size.val >= 0
                  /\ avail >= size.val
                  /\ ValidUtf8(payload)
            /\ result.ok =>
                  /\ result.val = CodePoints(payload)
                  /\ reader.pos = size.src.pos + size.val
            /\ size.ok /\ size.val < 0 =>
                  ~result.ok /\ reader.pos = size.src.pos
            /\ size.ok /\ size.val >= 0 /\ avail < size.val => ~result.ok

\* a string of three bytes was announced and two followed: the read failed
ReadStringChecksWitness ==
    /\ pc = "string_decoded"
    /\ reader.data = <<3, 195, 169>>
    /\ ~result.ok

\* values of an i64 and their eight bytes: -1, 1, i64::MIN, i64::MAX,
\* 0x0102030401020304
KnownLongs ==
    {<<Long(-1, -1), <<255, 255, 255, 255, 255, 255, 255, 255>>>>,
     <<Long(0, 1), <<0, 0, 0, 0, 0, 0, 0, 1>>>>,
     <<Long(I32_MIN, 0), <<128, 0, 0, 0, 0, 0, 0, 0>>>>,
     <<Long(I32_MAX, -1), <<127, 255, 255, 255, 255, 255, 255, 255>>>>,
     <<Long(16909060, 16909060), <<1, 2, 3, 4, 1, 2, 3, 4>>>>}

\* C17: long codec.  For every 64-bit signed value write_long emits exactly
\* eight bytes in big-endian two's-complement order and read_long on those
\* bytes returns the same value; read_long fails when fewer than eight bytes
\* are available.
LongCodec ==
    /\ pc \in {"long_written", "long_read"} =>
          /\ Len(writer.wire) = 8
          /\ writer.wire = BigEndian(value)
          /\ \A k \in KnownLongs : value = k[1] => writer.wire = k[2]
    /\ pc = "long_written" => result.ok
    /\ pc = "long_read" =>
          IF Len(reader.data) >= 8
          THEN result.ok /\ result.val = value /\ reader.pos = 8
          ELSE ~result.ok

\* i64::MIN was written as 80 00 00 00 00 00 00 00 and read back from a
\* source that holds further bytes
LongCodecWitness ==
    /\ pc = "long_read"
    /\ value = Long(I32_MIN, 0)
    /\ writer.wire = <<128, 0, 0, 0, 0, 0, 0, 0>>
    /\ Len(reader.data) > 8
    /\ result.ok /\ result.val = value

\* C28 as stated: Ping baseline.  The instant the latency is counted from is
\* taken after the status response was received and immediately before the
\* ping packet is sent, before its first byte is written, so that the reported
\* latency includes the time of writing and flushing the ping.
PingBaseline ==
    [][pc = "send_ping_request" /\ pc' = "read_pong_response" =>
          /\ "read_status_response" \in Range(trace)
          /\ writer'.wire # writer.wire
          /\ session'.start_time = Some(now)]_vars

\* C29: write_var_int shape.  For every i32 value written to a sink that does
\* not fail, write_var_int returns Ok after writing between 1 and 5 bytes, the
\* continuation bit set on every byte but the last and clear on the last; the
\* last error return (more than 5 bytes) is never reached, so the function
\* fails only when the write of the sink fails.
WriteVarIntShape ==
    pc = "write_var_int_returned" =>
        /\ result.ok =>
             /\ Len(writer.wire) \in 1..5
             /\ \A k \in 1..Len(writer.wire) :
                  (writer.wire[k] >= 128) = (k < Len(writer.wire))
        /\ ~writer.failing => result.ok
        /\ ~result.ok =>
             /\ result.err = "io: write failed"
             /\ writer.failing /\ writer.room = 0
             /\ Len(writer.wire) < GroupCount(value)
             /\ \A k \in 1..Len(writer.wire) : writer.wire[k] >= 128

\* a value of five bytes written to a Vec, and to a sink that fails after
\* the fourth
WriteVarIntShapeWitness ==
    /\ pc = "write_var_int_returned"
    /\ value = I32_MIN
    /\ \/ /\ ~writer.failing
          /\ result.ok
          /\ writer.wire = <<128, 128, 128, 128, 8>>
       \/ /\ writer.failing
          /\ ~result.ok
          /\ writer.wire = <<128, 128, 128, 128>>

-----------------------------------------------------------------------------
(* Properties of the chat renderer *)

\* the rendered String when no escape sequence is emitted: the texts of the
\* pushed strings, one after the other
RECURSIVE PlainText(_)
PlainText(str) ==
    IF str = <<>> THEN <<>> ELSE Head(str).text \o PlainText(Tail(str))

\* the characters of a string that are text: neither a section sign nor the
\* character after one
RECURSIVE Visible(_)
Visible(s) ==
    IF s = <<>> THEN <<>>
    ELSE IF Head(s) = SECTION_SIGN
         THEN (IF Len(s) = 1 THEN <<>> ELSE Visible(Tail(Tail(s))))
         ELSE <<Head(s)>> \o Visible(Tail(s))

\* the text of a component in document order: the text of the object, then
\* its extra; the elements of an array from left to right
RECURSIVE DocumentText(_)
DocumentText(v) ==
    LET each(a) == [i \in 1..Len(a) |-> DocumentText(a[i])]
        RECURSIVE joined(_)
        joined(parts) ==
            IF parts = <<>> THEN <<>> ELSE Head(parts) \o joined(Tail(parts))
        member(key, kind) ==
            {i \in 1..Len(v.m) : v.m[i].key = key /\ v.m[i].val.t = kind}
    IN  CASE v.t = "null" -> <<>>
          [] v.t = "bool" ->
                IF v.b THEN <<116, 114, 117, 101>> ELSE <<102, 97, 108, 115, 101>>
          [] v.t = "number" -> v.s
          [] v.t = "string" -> Visible(v.s)
          [] v.t = "array" -> joined(each(v.a))
          [] v.t = "object" ->
                joined([i \in 1..Len(v.m) |->
                           IF i \in member("text", "string")
                           THEN Visible(v.m[i].val.s) ELSE <<>>])
                    \o joined([i \in 1..Len(v.m) |->
                                  IF i \in member("extra", "array")
                                  THEN joined(each(v.m[i].val.a)) ELSE <<>>])

\* C18: Rendering order.  With styling disabled the output of chat_to_str is
\* the text runs joined in depth-first document order: the text of an object,
\* then the elements of its extra array, then what follows the object in the
\* array that holds it; arrays, nested ones too, from left to right; null gives
\* nothing, a number or a boolean its JSON text.
RenderingOrder ==
    pc = "chat_rendered" => PlainText(result.val) = DocumentText(value)

\* an object with a text whose extra starts with an object that has a text and
\* an extra of two elements itself, and goes on with a sibling
RenderingOrderWitness ==
    /\ pc = "chat_rendered"
    /\ value.t = "object"
    /\ \E i, j \in 1..Len(value.m) :
         /\ value.m[i].key = "text" /\ value.m[i].val.t = "string"
         /\ value.m[j].key = "extra" /\ value.m[j].val.t = "array"
         /\ Len(value.m[j].val.a) = 2
         /\ LET first == value.m[j].val.a[1]
            IN  /\ first.t = "object"
                /\ \E k, l \in 1..Len(first.m) :
                     /\ first.m[k].key = "text"
                     /\ first.m[l].key = "extra"
                     /\ first.m[l].val.t = "array"
                     /\ Len(first.m[l].val.a) = 2
                     /\ first.m[l].val.a[1] # first.m[l].val.a[2]
                     /\ DocumentText(first.m[l].val.a[1]) # <<>>
                     /\ DocumentText(first.m[l].val.a[2]) # <<>>
    /\ Len(PlainText(result.val)) >= 5

\* the value an object gives to a key, when it is of the kind the renderer
\* reads for that key
Explicit(members, key, kind) ==
    {members[i].val : i \in {j \in 1..Len(members) :
                                members[j].key = key /\ members[j].val.t = kind}}

\* the structural style of an object under an inherited one: the fields the
\* object sets itself are its own, the others are inherited
Effective(inherited, members) ==
    LET own(key, from) ==
            IF Explicit(members, key, "bool") = {} THEN from
            ELSE (CHOOSE v \in Explicit(members, key, "bool") : TRUE).b
    IN  [bold |-> own("bold", inherited.bold),
         italic |-> own("italic", inherited.italic),
         underline |-> own("underlined", inherited.underline),
         strikethrough |-> own("strikethrough", inherited.strikethrough),
         obfuscated |-> own("obfuscated", inherited.obfuscated),
         color |-> IF Explicit(members, "color", "string") = {}
                   THEN inherited.color
                   ELSE parse_color(
                       (CHOOSE v \in Explicit(members, "color", "string") :
                           TRUE).s)]

\* the strings a component hands to the terminal, in document order, each with
\* the structural style it is under
RECURSIVE TextRuns(_, _)
TextRuns(v, inherited) ==
    LET RECURSIVE joined(_)
        joined(parts) ==
            IF parts = <<>> THEN <<>> ELSE Head(parts) \o joined(Tail(parts))
        each(a, style) == joined([i \in 1..Len(a) |-> TextRuns(a[i], style)])
        run(string, style) == <<[string |-> string, style |-> style]>>
    IN  CASE v.t = "null" -> <<>>
          [] v.t = "bool" ->
                run(IF v.b THEN <<116, 114, 117, 101>>
                    ELSE <<102, 97, 108, 115, 101>>, inherited)
          [] v.t = "number" -> run(v.s, inherited)
          [] v.t = "string" -> run(v.s, inherited)
          [] v.t = "array" -> each(v.a, inherited)
          [] v.t = "object" ->
                LET style == Effective(inherited, v.m)
                IN  joined([i \in 1..Len(v.m) |->
                               IF v.m[i].key = "text" /\ v.m[i].val.t = "string"
                               THEN run(v.m[i].val.s, style) ELSE <<>>])
                        \o joined([i \in 1..Len(v.m) |->
                                      IF v.m[i].key = "extra"
                                         /\ v.m[i].val.t = "array"
                                      THEN each(v.m[i].val.a, style)
                                      ELSE <<>>])

\* the control codes of a string, in order
RECURSIVE Controls(_)
Controls(s) ==
    IF s = <<>> THEN <<>>
    ELSE IF Head(s) = SECTION_SIGN
         THEN (IF Len(s) = 1 THEN <<>>
               ELSE <<s[2]>> \o Controls(Tail(Tail(s))))
         ELSE Controls(Tail(s))

\* the place in the rendered String of the first piece of the k-th string
RECURSIVE Start(_, _)
Start(runs, k) ==
    IF k = 1 THEN 1
    ELSE Start(runs, k - 1) + 1 + Len(Controls(runs[k - 1].string))

\* the rendered pieces of the k-th string that follow a control code
Marked(runs, k) ==
    SubSeq(result.val, Start(runs, k) + 1, Start(runs, k + 1) - 1)

\* C19: Structural inheritance.  Every element of the extra array of an object,
\* at any depth and through nested arrays, is rendered under the effective
\* structural style of the object (five flags and color) except for the fields
\* the element sets itself; an explicit false overrides an inherited true.
StructuralInheritance ==
    pc = "chat_rendered" =>
        LET runs == TextRuns(value, StyleDefault)
        IN  /\ Len(result.val) = Start(runs, Len(runs) + 1) - 1
            /\ \A k \in 1..Len(runs) :
                 result.val[Start(runs, k)].style = runs[k].style

\* a bold red object whose extra holds, inside an array, an object that sets
\* bold to false and an unknown color, and then a string; the first is rendered
\* neither bold nor red, the second both
StructuralInheritanceWitness ==
    /\ pc = "chat_rendered"
    /\ value.t = "object"
    /\ Explicit(value.m, "bold", "bool") = {Bool(TRUE)}
    /\ Explicit(value.m, "color", "string") # {}
    /\ \E extra \in Explicit(value.m, "extra", "array") :
         /\ extra.a # <<>>
         /\ extra.a[1].t = "array"
         /\ \E element \in Range(extra.a[1].a) :
              /\ element.t = "object"
              /\ Explicit(element.m, "bold", "bool") = {Bool(FALSE)}
    /\ LET runs == TextRuns(value, StyleDefault)
       IN  \E j, k \in 1..Len(runs) :
              /\ j < k
              /\ ~result.val[Start(runs, j)].style.bold
              /\ result.val[Start(runs, j)].style.color = None
              /\ result.val[Start(runs, k)].style.bold
              /\ result.val[Start(runs, k)].style.color
                    = Some(Color(255, 85, 85))

\* the style the old system has reached after the first n control codes of a
\* string, from no color and no flags
RECURSIVE Accumulated(_, _)
Accumulated(codes, n) ==
    IF n = 0 THEN StyleDefault
    ELSE control_sequence_style(Accumulated(codes, n - 1), codes[n])

\* the component without its control sequences
RECURSIVE Stripped(_)
Stripped(v) ==
    CASE v.t = "string" -> String(Visible(v.s))
      [] v.t = "array" -> Array([i \in 1..Len(v.a) |-> Stripped(v.a[i])])
      [] v.t = "object" ->
            Object([i \in 1..Len(v.m) |->
                       IF v.m[i].key \in {"text", "extra"}
                       THEN Member(v.m[i].key, Stripped(v.m[i].val))
                       ELSE v.m[i]])
      [] OTHER -> v

\* C20: Legacy non-inheritance.  The style accumulated from the marker codes of
\* one text run is applied to no other text run: in every text run the pieces
\* after a marker are styled by the codes of that run alone, counted from no
\* color and no flags, and the style under which every text run starts, the
\* elements of an extra included, is the one it has when the document holds no
\* marker at all.
LegacyNonInheritance ==
    pc = "chat_rendered" =>
        LET runs == TextRuns(value, StyleDefault)
            unmarked == chat_to_str(Stripped(value))
        IN  /\ Len(unmarked) = Len(runs)
            /\ \A k \in 1..Len(runs) :
                 /\ result.val[Start(runs, k)].style = unmarked[k].style
                 /\ Len(Marked(runs, k)) = Len(Controls(runs[k].string))
                 /\ \A n \in 1..Len(Marked(runs, k)) :
                      Marked(runs, k)[n].style
                         = Accumulated(Controls(runs[k].string), n)

\* the text of an object under a structural style of its own holds the codes
\* c and r: the piece after c is red and nothing else, and the next
\* text run, an element of the extra, starts without the red
LegacyNonInheritanceWitness ==
    /\ pc = "chat_rendered"
    /\ value.t = "object"
    /\ Explicit(value.m, "extra", "array") # {}
    /\ LET runs == TextRuns(value, StyleDefault)
       IN  /\ Len(runs) >= 2
           /\ Controls(runs[1].string) = <<99, 114>>
           /\ runs[1].style.italic
           /\ Marked(runs, 1)[1].style
                 = [StyleDefault EXCEPT !.color = Some(Color(255, 85, 85))]
           /\ Marked(runs, 1)[2].style = StyleDefault
           /\ result.val[Start(runs, 2)].style.color = None
           /\ result.val[Start(runs, 2)].style.italic

\* the JSON type the renderer reads a key of an object as
Expected(key) ==
    CASE key = "text" -> "string"
      [] key = "color" -> "string"
      [] key = "extra" -> "array"
      [] OTHER -> "bool"

\* the component without the members of its objects that have another type
\* than the one their key is read as
RECURSIVE WithoutMalformed(_)
WithoutMalformed(v) ==
    CASE v.t = "array" ->
            Array([i \in 1..Len(v.a) |-> WithoutMalformed(v.a[i])])
      [] v.t = "object" ->
            LET kept == SelectSeq(v.m, LAMBDA e : e.val.t = Expected(e.key))
            IN  Object([i \in 1..Len(kept) |->
                           Member(kept[i].key, WithoutMalformed(kept[i].val))])
      [] OTHER -> v

\* the members of the objects of a component that have an unexpected type
RECURSIVE Malformed(_)
Malformed(v) ==
    CASE v.t = "array" -> UNION {Malformed(v.a[i]) : i \in 1..Len(v.a)}
      [] v.t = "object" ->
            {v.m[i].key : i \in {j \in 1..Len(v.m) :
                                    v.m[j].val.t # Expected(v.m[j].key)}}
                \cup UNION {Malformed(v.m[i].val) : i \in 1..Len(v.m)}
      [] OTHER -> {}

\* C21: Malformed tolerance.  A field of an object that has an unexpected JSON
\* type is treated as absent and raises no error: the rendering is the one of
\* the document without such fields, so a text that is no string renders
\* nothing, an extra that is no array is ignored, and a flag that is no boolean
\* or a color that is no string leaves the inherited value in force for the
\* text of the object and for its extra.
MalformedTolerance ==
    pc = "chat_rendered" =>
        /\ result.ok
        /\ result.val = chat_to_str(WithoutMalformed(value))

\* an object whose text is no string is rendered as nothing, one whose extra is
\* no array as its text alone
MalformedFieldWitness ==
    /\ pc = "chat_rendered"
    /\ value.t = "object"
    /\ \/ Malformed(value) = {"text"} /\ result.val = <<>>
       \/ /\ Malformed(value) = {"extra"}
          /\ PlainText(result.val) = <<65>>

\* inside the extra of a bold red object, an element whose bold is a string and
\* whose color is a number is rendered bold and red
MalformedToleranceWitness ==
    /\ pc = "chat_rendered"
    /\ value.t = "object"
    /\ Explicit(value.m, "bold", "bool") = {Bool(TRUE)}
    /\ \E extra \in Explicit(value.m, "extra", "array") :
         /\ Len(extra.a) = 2
         /\ extra.a[1].t = "object"
         /\ Explicit(extra.a[1].m, "extra", "array") # {}
         /\ Malformed(extra.a[1]) = {"bold", "color"}
    /\ Malformed(value) = {"bold", "color"}
    /\ \A k \in 1..Len(result.val) :
         /\ result.val[k].style.bold
         /\ result.val[k].style.color = Some(Color(255, 85, 85))
    /\ Len(result.val) >= 3

\* the escape characters of the strings of a document
EscapesOf(v) ==
    LET runs == TextRuns(v, StyleDefault)
    IN  {<<k, i>> \in (1..Len(runs)) \X (1..6) :
            i <= Len(runs[k].string) /\ runs[k].string[i] = 27}

\* C22: Plain-mode stripping.  With styling disabled the output holds no marker
\* character, each text run is rendered as the run without its markers and
\* without the character after each marker (a marker at the end of the run is
\* removed alone), and the output holds no escape sequence unless a string of
\* the document holds one itself.
PlainModeStripping ==
    pc = "chat_rendered" /\ ~result.has_colors =>
        /\ SECTION_SIGN \notin Range(text)
        /\ text = DocumentText(value)
        /\ EscapesOf(value) = {} => 27 \notin Range(text)

\* an object under a style of its own whose text holds two markers, the text
\* of the object and its extra rendered without colors
PlainModeStrippingWitness ==
    /\ pc = "chat_rendered"
    /\ ~result.has_colors
    /\ value.t = "object"
    /\ LET runs == TextRuns(value, StyleDefault)
       IN  /\ Len(runs) >= 2
           /\ runs[1].style # StyleDefault
           /\ Len(Controls(runs[1].string)) = 2
           /\ \E k \in 2..Len(runs) :
                /\ Controls(runs[k].string) # <<>>
                /\ Visible(runs[k].string) # <<>>
    /\ Len(text) >= 4
    /\ as_str(result.val, TRUE) # text

\* C22 as stated: with styling disabled the output holds, for every input, no
\* marker character and no escape sequence, and each text run is rendered
\* without its markers and the characters after them.
PlainModeNoEscape ==
    pc = "chat_rendered" /\ ~result.has_colors =>
        /\ SECTION_SIGN \notin Range(text)
        /\ 27 \notin Range(text)
        /\ text = DocumentText(value)

\* the nodes of a component that the loop reaches: the component, the
\* elements of an array, and the extra of an object when it is an array
RECURSIVE Nodes(_)
Nodes(v) ==
    LET RECURSIVE joined(_)
        joined(parts) ==
            IF parts = <<>> THEN <<>> ELSE Head(parts) \o joined(Tail(parts))
    IN  <<v>> \o
        CASE v.t = "array" -> joined([i \in 1..Len(v.a) |-> Nodes(v.a[i])])
          [] v.t = "object" ->
                joined([i \in 1..Len(v.m) |->
                           IF v.m[i].key = "extra" /\ v.m[i].val.t = "array"
                           THEN Nodes(v.m[i].val) ELSE <<>>])
          [] OTHER -> <<>>

\* how often x is in the sequence
Count(seq, x) == Cardinality({i \in 1..Len(seq) : seq[i] = x})

\* the nodes that wait on the stack, with the nodes below them
RECURSIVE Pending(_)
Pending(components) ==
    IF components = <<>> THEN 0
    ELSE Len(Nodes(Head(components).comp)) + Pending(Tail(components))

\* C23: The renderer is total and terminates.  For every JSON value
\* parse_component ends with the work stack empty and returns a string, never
\* an error, and has processed each node it reaches through arrays and through
\* extra fields that are arrays exactly once: every turn of the loop takes one
\* node off the nodes that wait, so the loop ends after as many turns as
\* there are nodes.
RendererTerminates ==
    /\ [](pc = "parse_component" =>
             /\ Len(result.popped) + Pending(result.components)
                   = Len(Nodes(value))
             /\ \A x \in Range(result.popped) :
                  Count(result.popped, x) <= Count(Nodes(value), x))
    /\ [](pc = "parse_component_returned" =>
             /\ result.components = <<>>
             /\ result.str = chat_to_str(value)
             /\ Len(result.popped) = Len(Nodes(value))
             /\ \A x \in Range(Nodes(value)) :
                  Count(result.popped, x) = Count(Nodes(value), x))
    /\ [][pc = "parse_component" =>
             \/ /\ pc' = "parse_component"
                /\ Pending(result.components') = Pending(result.components) - 1
             \/ /\ pc' = "parse_component_returned"
                /\ Pending(result.components) = 0]_vars

\* the loop has returned from a document of at least seven nodes, arrays in
\* arrays and an extra in an extra among them, one node at least twice in it
RendererTerminatesWitness ==
    /\ pc = "parse_component_returned"
    /\ Len(result.popped) >= 7
    /\ \E x \in Range(result.popped) : Count(result.popped, x) = 2
    /\ \E x \in Range(result.popped) :
         /\ x.t = "object"
         /\ x # value
         /\ Explicit(x.m, "extra", "array") # {}
    /\ \E x \in Range(result.popped) :
         x.t = "array" /\ \E i \in 1..Len(x.a) : x.a[i].t = "array"
    /\ result.components = <<>>
    /\ result.str # <<>>

\* whether a style is active after the characters were written to a terminal:
\* the last escape sequence among them is not the reset
ActiveAfter(chars) ==
    LET escapes == {i \in 1..Len(chars) : chars[i] = 27}
        last == CHOOSE i \in escapes : \A j \in escapes : j <= i
    IN  /\ escapes # {}
        /\ SubSeq(chars, last, last + Len(RESET) - 1) # RESET

\* what the first k strings pushed to the String have written
Emitted(k) == as_str(SubSeq(result.val, 1, k), result.has_colors)

InnerResetWitness ==
    /\ pc = "chat_rendered"
    /\ result.has_colors
    /\ text = <<27, 91, 49, 109, 71>> \o RESET \o <<27, 91, 49, 109, 72>> \o RESET

\* the first n control codes of a string that come after its last reset code
\* among them
SinceReset(codes, n) ==
    LET resets == {i \in 1..n : codes[i] = 114}
        from == IF resets = {} THEN 1
                ELSE 1 + CHOOSE i \in resets : \A j \in resets : j <= i
    IN  {codes[i] : i \in from..n}

\* the segments of a string: its characters between the control sequences
RECURSIVE Segments(_)
Segments(s) ==
    LET signs == {i \in 1..Len(s) : s[i] = SECTION_SIGN}
        first == CHOOSE i \in signs : \A j \in signs : i <= j
    IN  IF signs = {} THEN <<s>>
        ELSE <<SubSeq(s, 1, first - 1)>>
                \o (IF first = Len(s) THEN <<>>
                    ELSE Segments(SubSeq(s, first + 2, Len(s))))

\* C30: Legacy overrides structural inside a run.  Of one text run only the
\* part before the first marker is emitted under the structural style; every
\* segment after a marker is emitted under the legacy style accumulated in the
\* run alone: a flag or a color is on it only if a code of the run since the
\* last reset set it, whatever the structural style is, and a segment whose
\* legacy style is empty (after the reset code or an unknown code) is emitted
\* without any style.
LegacyOverridesStructural ==
    pc = "chat_rendered" =>
        LET runs == TextRuns(value, StyleDefault)
        IN  \A k \in 1..Len(runs) :
              LET codes == Controls(runs[k].string)
                  first == result.val[Start(runs, k)]
                  marked == Marked(runs, k)
              IN  /\ first.style = runs[k].style
                  /\ first.text = Segments(runs[k].string)[1]
                  /\ Len(marked) = Len(codes)
                  /\ Len(Segments(runs[k].string)) = 1 + Len(codes)
                  /\ \A n \in 1..Len(marked) :
                       LET since == SinceReset(codes, n)
                       IN  /\ marked[n].text = Segments(runs[k].string)[n + 1]
                           /\ marked[n].style.bold = (108 \in since)
                           /\ marked[n].style.italic = (111 \in since)
                           /\ marked[n].style.underline = (110 \in since)
                           /\ marked[n].style.strikethrough = (109 \in since)
                           /\ marked[n].style.obfuscated = (107 \in since)
                           /\ marked[n].style.color.some
                                 = (since \cap (48..57 \cup 97..102) # {})
                           /\ since \cap (48..57 \cup 97..102 \cup 107..111) = {}
                                 => fmt(marked[n], result.has_colors)
                                       = marked[n].text

\* with colors on, inside the extra of a bold red object: the text §cD§rE
\* gives D in the red of the code and not bold, and E without any style
LegacyOverridesStructuralWitness ==
    /\ pc = "chat_rendered"
    /\ result.has_colors
    /\ value.t = "object"
    /\ Explicit(value.m, "bold", "bool") = {Bool(TRUE)}
    /\ Explicit(value.m, "extra", "array") # {}
    /\ \E d \in 2..(Len(result.val) - 1) :
         /\ result.val[d - 1].style.bold
         /\ result.val[d - 1].style.color = Some(Color(255, 85, 85))
         /\ result.val[d].text = <<68>>
         /\ result.val[d].style
               = [StyleDefault EXCEPT !.color = Some(Color(255, 85, 85))]
         /\ result.val[d + 1].text = <<69>>
         /\ result.val[d + 1].style = StyleDefault

\* with colors on, a bold object with the text H§zI: H is bold, I is written
\* without any style
UnknownCodeWitness ==
    /\ pc = "chat_rendered"
    /\ result.has_colors
    /\ Len(result.val) = 2
    /\ result.val[1].text = <<72>> /\ result.val[1].style.bold
    /\ result.val[2].text = <<73>> /\ result.val[2].style = StyleDefault
    /\ text = <<27, 91, 49, 109, 72>> \o RESET \o <<73>>

-----------------------------------------------------------------------------
(* Properties of the color resolution *)

\* the 16 names
ColorNames ==
    {<<98, 108, 97, 99, 107>>,
     <<100, 97, 114, 107, 95, 98, 108, 117, 101>>,
     <<100, 97, 114, 107, 95, 103, 114, 101, 101, 110>>,
     <<100, 97, 114, 107, 95, 97, 113, 117, 97>>,
     <<100, 97, 114, 107, 95, 114, 101, 100>>,
     <<100, 97, 114, 107, 95, 112, 117, 114, 112, 108, 101>>,
     <<103, 111, 108, 100>>,
     <<103, 114, 97, 121>>,
     <<100, 97, 114, 107, 95, 103, 114, 97, 121>>,
     <<98, 108, 117, 101>>,
     <<103, 114, 101, 101, 110>>,
     <<97, 113, 117, 97>>,
     <<114, 101, 100>>,
     <<108, 105, 103, 104, 116, 95, 112, 117, 114, 112, 108, 101>>,
     <<121, 101, 108, 108, 111, 119>>,
     <<119, 104, 105, 116, 101>>}

\* 0123456789abcdef and 0123456789ABCDEF
LowerDigits == <<48, 49, 50, 51, 52, 53, 54, 55, 56, 57, 97, 98, 99, 100, 101, 102>>
UpperDigits == <<48, 49, 50, 51, 52, 53, 54, 55, 56, 57, 65, 66, 67, 68, 69, 70>>

IsHexChar(c) == c \in Range(LowerDigits) \cup Range(UpperDigits)

\* the value of a hexadecimal digit
HexValue(c) ==
    (CHOOSE i \in 1..16 : LowerDigits[i] = c \/ UpperDigits[i] = c) - 1

\* a number sign and six hexadecimal digits after it
IsWebColor(s) ==
    /\ Len(s) = 7
    /\ s[1] = 35
    /\ \A i \in 2..7 : IsHexChar(s[i])

\* C24 as stated: for a color string that is none of the 16 names, parse_color
\* returns a color only if the string is a number sign and exactly six
\* hexadecimal digits, red, green and blue being the first, the middle and
\* the last pair of digits; every other string (a wrong length, no number sign,
\* a character that is no hexadecimal digit, a sign or a letter outside ASCII
\* among them) gives no color and no error.
ColorResolution ==
    pc = "color_parsed" /\ text \notin ColorNames =>
        IF IsWebColor(text)
        THEN result = Some(Color(HexValue(text[2]) * 16 + HexValue(text[3]),
                                 HexValue(text[4]) * 16 + HexValue(text[5]),
                                 HexValue(text[6]) * 16 + HexValue(text[7])))
        ELSE result = None

-----------------------------------------------------------------------------
(* Properties of the command line *)

\* an argument that starts with a dash
IsFlag(token) == token # <<>> /\ Head(token) = 45

\* -v --verbose -f --favicon -r --raw-response -l --lan
VerboseFlags == {<<45, 118>>, <<45, 45, 118, 101, 114, 98, 111, 115, 101>>}
FaviconFlags == {<<45, 102>>, <<45, 45, 102, 97, 118, 105, 99, 111, 110>>}
RawResponseFlags == {<<45, 114>>, <<45, 45, 114, 97, 119, 45, 114, 101, 115, 112, 111, 110, 115, 101>>}
LanFlags == {<<45, 108>>, <<45, 45, 108, 97, 110>>}
KnownFlags == VerboseFlags \cup FaviconFlags \cup RawResponseFlags \cup LanFlags

\* the arguments after the name of the executable
Given == Tail(text)

\* the arguments that are no flags, in order
Positional == SelectSeq(Given, LAMBDA token : ~IsFlag(token))

\* C26: Flags must precede positional arguments.  parse returns an error for
\* every argument list in which a flag comes after the host, in the place of
\* the port or after the port, and for every flag that is none of -v/--verbose,
\* -f/--favicon, -r/--raw-response, -l/--lan.
FlagsFirst ==
    pc = "parsed" /\ text # <<>> =>
        /\ (\E i, j \in 1..Len(Given) :
               i < j /\ ~IsFlag(Given[i]) /\ IsFlag(Given[j])) => ~result.ok
        /\ (\E i \in 1..Len(Given) :
               IsFlag(Given[i]) /\ Given[i] \notin KnownFlags) => ~result.ok

\* a known flag after host and port is an error, and the same arguments
\* without it are none
FlagsFirstWitness ==
    /\ pc = "parsed"
    /\ Len(text) = 4
    /\ ~IsFlag(text[2])
    /\ parse_port(text[3]).ok
    /\ text[4] \in KnownFlags
    /\ ~result.ok
    /\ parse(SubSeq(text, 1, 3)).ok

\* a known flag in the place of the port is an error
FlagAsPortWitness ==
    /\ pc = "parsed"
    /\ Len(text) = 3
    /\ ~IsFlag(text[2])
    /\ text[3] \in KnownFlags
    /\ result = Err("Invalid port")

\* an unknown flag before the host is an error
UnknownFlagWitness ==
    /\ pc = "parsed"
    /\ Len(text) = 3
    /\ IsFlag(text[2]) /\ text[2] \notin KnownFlags
    /\ ~IsFlag(text[3])
    /\ result = Err("Unrecognized flag")

\* whether one of the flags was given
WasGiven(flags) == \E i \in 1..Len(Given) : Given[i] \in flags

\* the arguments of the bounded set that are a number of 16 bits: 25560, +80
PortNumbers == {<<<<50, 53, 53, 54, 48>>, 25560>>, <<<<43, 56, 48>>, 80>>}

\* C27: Command-line defaults.  Without the LAN flag parse fails when no
\* address is given; when it succeeds, host is the first positional argument
\* and port the second one read as an unsigned number of 16 bits, or 25565
\* when there is none; verbose, favicon, raw-response and lan are true exactly
\* when their flag was given.
CommandLineDefaults ==
    pc = "parsed" /\ text # <<>> =>
        /\ ~WasGiven(LanFlags) /\ Positional = <<>> => ~result.ok
        /\ result.ok =>
             /\ result.val.verbose = WasGiven(VerboseFlags)
             /\ result.val.get_favicon = WasGiven(FaviconFlags)
             /\ result.val.raw_response = WasGiven(RawResponseFlags)
             /\ result.val.open_to_lan = WasGiven(LanFlags)
             /\ result.val.port \in 0..65535
             /\ ~result.val.open_to_lan =>
                  /\ result.val.host = Positional[1]
                  /\ Len(Positional) = 1 => result.val.port = 25565
                  /\ Len(Positional) > 1 =>
                       <<Positional[2], result.val.port>> \in PortNumbers

\* two flags, a host and a port are parsed
CommandLineDefaultsWitness ==
    /\ pc = "parsed"
    /\ Len(text) = 4
    /\ text[2] \in VerboseFlags
    /\ ~IsFlag(text[3]) /\ text[3] # <<>>
    /\ result.ok
    /\ result.val.verbose /\ ~result.val.raw_response
    /\ result.val.host = text[3]
    /\ result.val.port = 25560

\* a host alone gets the default port; flags alone are an error
DefaultPortWitness ==
    /\ pc = "parsed"
    /\ \/ Len(text) = 2 /\ result.ok /\ result.val.port = 25565
                        /\ result.val.host = text[2]
       \/ Len(text) = 3 /\ Positional = <<>>
                        /\ result = Err("No address provided")

-----------------------------------------------------------------------------
(* Properties of the old style system *)

\* the control characters that are a color
ColorCodes == 48..57 \cup 97..102

\* the five flags of a style
FlagsOf(style) ==
    <<style.bold, style.italic, style.underline, style.strikethrough,
      style.obfuscated>>

\* C31: Legacy code state machine.  In one turn of the old system a color code
\* (0-9, a-f) sets a color and keeps the five flags; each of k, l, m, n, o
\* sets its own flag and leaves the other flags and the color as they were;
\* r leaves no color and no flag; any other character after a marker, an
\* upper case letter and a second marker included, leaves the style as it
\* was.  In every turn the marker and the control character are consumed and
\* not emitted: the piece pushed is the text up to the next marker, under
\* the style reached, and the String returned holds the text run without its
\* markers and control characters.
LegacyStateMachine ==
    /\ [][(pc = "old_system" /\ result.i <= Len(text)) =>
             LET c == text[result.i]
                 before == result.style
                 after == result.style'
                 piece == result.out'[Len(result.out')]
                 rest == {j \in (result.i + 1)..Len(text) : text[j] = SECTION_SIGN}
                 stop == IF rest = {} THEN Len(text) + 1
                         ELSE CHOOSE j \in rest : \A k \in rest : j <= k
             IN  /\ c \in ColorCodes =>
                       /\ after.color.some
                       /\ FlagsOf(after) = FlagsOf(before)
                 /\ c = 107 => after = [before EXCEPT !.obfuscated = TRUE]
                 /\ c = 108 => after = [before EXCEPT !.bold = TRUE]
                 /\ c = 109 => after = [before EXCEPT !.strikethrough = TRUE]
                 /\ c = 110 => after = [before EXCEPT !.underline = TRUE]
                 /\ c = 111 => after = [before EXCEPT !.italic = TRUE]
                 /\ c = 114 =>
                       /\ after.color = None
                       /\ FlagsOf(after) = <<FALSE, FALSE, FALSE, FALSE, FALSE>>
                 /\ c \notin ColorCodes \cup 107..111 \cup {114} => after = before
                 /\ text[result.i - 1] = SECTION_SIGN
                 /\ result.out' = Append(result.out, piece)
                 /\ piece.style = after
                 /\ piece.text = [j \in 1..(stop - result.i - 1) |-> text[result.i + j]]
                 /\ result.i' = stop + 1]_vars
    /\ [](pc = "apply_styles_returned" =>
             /\ PlainText(result.out) = Visible(text)
             /\ \A n \in 1..Len(result.out) :
                  \A j \in 1..Len(result.out[n].text) :
                     result.out[n].text[j] # SECTION_SIGN)

\* the run §lU§cU§rU has returned: the piece after c is bold and colored,
\* the piece after r has neither
LegacyStateMachineWitness ==
    /\ pc = "apply_styles_returned"
    /\ text = <<167, 108, 85, 167, 99, 85, 167, 114, 85>>
    /\ Len(result.out) = 4
    /\ result.out[2].style = [StyleDefault EXCEPT !.bold = TRUE]
    /\ result.out[3].style
          = [StyleDefault EXCEPT !.bold = TRUE, !.color = Some(Color(255, 85, 85))]
    /\ result.out[4].style = StyleDefault
    /\ PlainText(result.out) = <<85, 85, 85>>

\* a color code after four flags and a color: the flags stay, the color is
\* the new one
ColorKeepsFlagsWitness ==
    /\ pc = "apply_styles_returned"
    /\ text = Markup(<<107, 109, 110, 111, 49, 97>>, <<85>>)
    /\ result.style
          = [bold |-> FALSE, italic |-> TRUE, underline |-> TRUE,
             strikethrough |-> TRUE, obfuscated |-> TRUE,
             color |-> Some(Color(85, 255, 85))]

\* an upper case L and a second marker as the control character: the style
\* stays bold and colored, and neither character is in the output
UnknownLegacyCodeWitness ==
    /\ pc = "apply_styles_returned"
    /\ text \in {Markup(<<108, 99, 76>>, <<85>>), Markup(<<108, 99, 167>>, <<85>>)}
    /\ result.out[4].style = result.out[3].style
    /\ result.out[4].style.bold /\ result.out[4].style.color.some
    /\ result.out[4].text = <<85>>

-----------------------------------------------------------------------------
(* Properties of the listener for games opened to the LAN *)

\* how often a pattern occurs in a str
Occurrences(pat, s) ==
    Cardinality({i \in 1..(Len(s) - Len(pat) + 1) :
                    SubSeq(s, i, i + Len(pat) - 1) = pat})

\* the message starts with [MOTD], ends with [/AD] and holds exactly one
\* [/MOTD][AD] between them
Delimited(message) ==
    /\ Len(message) >= 11
    /\ SubSeq(message, 1, 6) = <<91, 77, 79, 84, 68, 93>>
    /\ SubSeq(message, Len(message) - 4, Len(message)) = <<91, 47, 65, 68, 93>>
    /\ Occurrences(<<91, 47, 77, 79, 84, 68, 93, 91, 65, 68, 93>>,
                   SubSeq(message, 7, Len(message) - 5)) = 1

\* the announcements printed: the raw messages and the motds
Announcements(out) ==
    Cardinality({i \in 1..Len(out) : out[i].line \in {"raw", "parse_string"}})

\* one receive of the listener, where valid tells whether the datagram
\* received is an announcement: a valid datagram ends the loop with one
\* more announcement printed, any other leaves the listener receiving with
\* nothing printed, and a receive error ends the run with a protocol error
ListenerStep(valid) ==
    pc = "recv_from" =>
        IF result'.ok
        THEN IF valid
             THEN /\ pc' = "done"
                  /\ Announcements(stdout') = Announcements(stdout) + 1
                  /\ exit_code' \in {"Ok", "Protocol"}
             ELSE /\ pc' = "recv_from"
                  /\ stdout' = stdout
                  /\ exit_code' = "running"
        ELSE /\ pc' = "done"
             /\ exit_code' = "Protocol"
             /\ stdout' = stdout

\* no announcement while the listener receives, one when it has stopped at
\* a datagram, none when it has stopped at an error
AnnouncedOnce ==
    /\ Announcements(stdout) <= 1
    /\ pc # "done" => Announcements(stdout) = 0
    /\ pc = "done" => (Announcements(stdout) = 1 <=> result.ok)
    /\ exit_code = "Ok" => Announcements(stdout) = 1

\* C32: LAN discovery loop.  The listener keeps receiving datagrams until
\* the first one that is valid UTF-8 and, once the white space at its two
\* ends is removed, starts with [MOTD], ends with [/AD] and holds exactly one
\* [/MOTD][AD] between them; every other datagram is skipped without an
\* announcement and without ending the loop; one announcement is printed in
\* a run that ends at such a datagram and none in any other; a receive error
\* ends the loop with a protocol error.
LanDiscoveryLoop ==
    /\ [][ListenerStep(/\ from_utf8(result'.val).ok
                       /\ Delimited(trim(result'.val)))]_vars
    /\ []AnnouncedOnce

\* the second datagram of a run was an announcement: the first one was
\* skipped, one announcement is printed and the run ended without an error
LanDiscoveryLoopWitness ==
    /\ pc = "done"
    /\ value = 2
    /\ result.ok
    /\ Delimited(result.val)
    /\ Announcements(stdout) = 1
    /\ exit_code = "Ok"

\* a receive error after a skipped datagram: nothing printed, protocol error
ReceiveErrorWitness ==
    /\ pc = "done"
    /\ value = 1
    /\ ~result.ok
    /\ stdout = <<>>
    /\ exit_code = "Protocol"

\* a datagram with a space in front and a line feed at its end was taken
\* as an announcement
PaddedAnnouncementWitness ==
    /\ pc = "done"
    /\ result.ok
    /\ result.val[1] = 32 /\ result.val[Len(result.val)] = 10
    /\ Announcements(stdout) = 1

\* C32 as stated: the loop ends at the first datagram that is valid UTF-8,
\* starts with [MOTD], ends with [/AD] and holds exactly one [/MOTD][AD]
\* between them, and every other datagram is skipped.
LanDiscoveryLoopUntrimmed ==
    /\ [][ListenerStep(/\ from_utf8(result'.val).ok
                       /\ Delimited(result'.val))]_vars
    /\ []AnnouncedOnce

-----------------------------------------------------------------------------
(* Properties of the session: the ping after the status *)

\* a status packet was read, and its string is none of the documents that
\* hold a valid status
Undecodable ==
    /\ session.status_response_json.some
    /\ \A d \in ValidDocuments : d.text # session.status_response_json.val

\* C33: No ping without a decodable status.  When the status packet is framed
\* correctly but its string does not deserialize into the status schema
\* (invalid JSON, or version, players or description missing), the session
\* fails with a protocol error before any byte of the ping packet is written:
\* the bytes written stay the handshake and the status request, no ping is
\* sent, no time is taken for it and nothing is printed.
NoPingWithoutStatus ==
    /\ [](Undecodable =>
             /\ pc \in {"deserialize", "done"}
             /\ "send_ping_request" \notin Range(trace)
             /\ writer.wire \o writer.buf = HandshakePacket \o StatusRequestPacket
             /\ session.system_time_sec = None
             /\ session.start_time = None
             /\ stdout = <<>>
             /\ pc = "done" => exit_code = "Protocol")
    /\ [][Undecodable /\ pc = "deserialize" =>
             /\ pc' = "done"
             /\ writer' = writer
             /\ exit_code' = "Protocol"]_vars

\* the peer sent a status without a description and a pong after it: the
\* session has ended with a protocol error, the pong unread and only the
\* handshake and the status request written
NoPingWithoutStatusWitness ==
    /\ pc = "done"
    /\ Undecodable
    /\ session.status_response_json.val = DocNoDescription.text
    /\ exit_code = "Protocol"
    /\ writer.wire = HandshakePacket \o StatusRequestPacket
    /\ reader.pos < Len(reader.data)
    /\ trace = SubSeq(SessionOrder, 1, 3)

\* the same for a string that is no JSON at all
InvalidJsonWitness ==
    /\ pc = "done"
    /\ Undecodable
    /\ session.status_response_json.val = DocInvalid.text
    /\ exit_code = "Protocol"
    /\ "send_ping_request" \notin Range(trace)

-----------------------------------------------------------------------------
(* Properties of the renderer: colors that are not recognized *)

\* a color string that is neither one of the 16 names nor a number sign and
\* six hexadecimal digits
Unrecognized(s) == s \notin ColorNames /\ ~IsWebColor(s)

\* for each string a component hands to the terminal, in document order,
\* whether the nearest object around it that has a color string has one
\* that is not recognized
RECURSIVE ClearedRuns(_, _)
ClearedRuns(v, cleared) ==
    LET RECURSIVE joined(_)
        joined(parts) ==
            IF parts = <<>> THEN <<>> ELSE Head(parts) \o joined(Tail(parts))
        each(a, c) == joined([i \in 1..Len(a) |-> ClearedRuns(a[i], c)])
    IN  CASE v.t = "null" -> <<>>
          [] v.t = "array" -> each(v.a, cleared)
          [] v.t = "object" ->
                LET colors == Explicit(v.m, "color", "string")
                    here == IF colors = {} THEN cleared
                            ELSE Unrecognized((CHOOSE c \in colors : TRUE).s)
                IN  joined([i \in 1..Len(v.m) |->
                               IF v.m[i].key = "text" /\ v.m[i].val.t = "string"
                               THEN <<here>> ELSE <<>>])
                        \o joined([i \in 1..Len(v.m) |->
                                      IF v.m[i].key = "extra"
                                         /\ v.m[i].val.t = "array"
                                      THEN each(v.m[i].val.a, here)
                                      ELSE <<>>])
          [] OTHER -> <<cleared>>

\* C34: Unrecognized color clears inheritance.  An object whose color field is
\* a string that is neither a known name nor a valid web color renders its own
\* text, and every element of its extra that sets no color string itself,
\* with no structural color, whatever color an ancestor set: the inherited
\* color is replaced by none.
UnrecognizedColorClears ==
    pc = "chat_rendered" =>
        LET runs == TextRuns(value, StyleDefault)
            cleared == ClearedRuns(value, FALSE)
        IN  /\ Len(cleared) = Len(runs)
            /\ \A k \in 1..Len(runs) :
                 cleared[k] => result.val[Start(runs, k)].style.color = None

-----------------------------------------------------------------------------
(* Properties of the renderer: siblings *)

\* the Strings one after the other
RECURSIVE Concatenated(_)
Concatenated(strs) ==
    IF strs = <<>> THEN <<>> ELSE Head(strs) \o Concatenated(Tail(strs))

\* the String of a component rendered alone under a structural style
RenderedUnder(component, style) ==
    parse_component_loop(<<[comp |-> component, style |-> style]>>, <<>>)

\* C35: Sibling isolation.  A structural style field set by an object reaches
\* only the text of the object and its extra: in every turn of the loop the
\* components that wait on the work stack keep their place and their style,
\* and what the turn pushes carries the style of the component popped (its
\* effective style for an object, the style it came with for an array); so
\* every element of an array or of an extra is rendered as it is rendered
\* alone under the style of what holds it, whatever its siblings set.
SiblingIsolation ==
    /\ [][pc = "parse_component" /\ result.components # <<>> =>
             LET n == Len(result.components)
                 top == result.components[n]
                 after == result.components'
                 handed == IF top.comp.t = "object"
                           THEN Effective(top.style, top.comp.m)
                           ELSE top.style
             IN  /\ Len(after) >= n - 1
                 /\ SubSeq(after, 1, n - 1) = SubSeq(result.components, 1, n - 1)
                 /\ \A j \in n..Len(after) : after[j].style = handed
                 /\ Len(result.str') > Len(result.str) =>
                       result.str'[Len(result.str) + 1].style = handed]_vars
    /\ [](pc = "parse_component_returned" /\ value.t = "array" =>
             result.str = Concatenated([i \in 1..Len(value.a) |->
                                           RenderedUnder(value.a[i], StyleDefault)]))
    /\ [](pc = "parse_component_returned" /\ value.t = "object" =>
             \A extra \in Explicit(value.m, "extra", "array") :
                 LET style == Effective(StyleDefault, value.m)
                     own == Len(TextRuns(Object(SelectSeq(value.m,
                                LAMBDA member : member.key # "extra")),
                                StyleDefault))
                     first == IF own = 0 THEN 0
                              ELSE Start(TextRuns(value, StyleDefault), 2) - 1
                 IN  SubSeq(result.str, first + 1, Len(result.str))
                        = Concatenated([i \in 1..Len(extra.a) |->
                                           RenderedUnder(extra.a[i], style)]))

\* an array of two elements has been rendered: the first holds a bold red
\* object with an extra, whose text is rendered bold and red; the second, the
\* string B§lC, starts under no style at all
SiblingIsolationWitness ==
    /\ pc = "parse_component_returned"
    /\ value.t = "array"
    /\ Len(value.a) = 2
    /\ value.a[1].t = "array"
    /\ value.a[1].a[1].t = "object"
    /\ Explicit(value.a[1].a[1].m, "bold", "bool") = {Bool(TRUE)}
    /\ Explicit(value.a[1].a[1].m, "extra", "array") # {}
    /\ value.a[2] = String(<<66, 167, 108, 67>>)
    /\ Len(result.str) >= 4
    /\ result.str[1].style.bold
    /\ result.str[1].style.color = Some(Color(255, 85, 85))
    /\ result.str[Len(result.str) - 1].text = <<66>>
    /\ result.str[Len(result.str) - 1].style = StyleDefault

\* inside an extra: the element after a bold red object is rendered under
\* the italic of the object that holds the extra, neither bold nor red
ExtraIsolationWitness ==
    /\ pc = "parse_component_returned"
    /\ value.t = "object"
    /\ Explicit(value.m, "italic", "bool") = {Bool(TRUE)}
    /\ \E extra \in Explicit(value.m, "extra", "array") :
         /\ Len(extra.a) = 2
         /\ extra.a[1].t = "object"
         /\ Explicit(extra.a[1].m, "bold", "bool") = {Bool(TRUE)}
         /\ extra.a[2] = String(<<65>>)
    /\ result.str[Len(result.str)].text = <<65>>
    /\ result.str[Len(result.str)].style.italic
    /\ ~result.str[Len(result.str)].style.bold
    /\ result.str[Len(result.str)].style.color = None
    /\ \E k \in 1..Len(result.str) :
         result.str[k].style.bold /\ result.str[k].style.color.some

-----------------------------------------------------------------------------
(* Properties of read_var_int: the fifth byte *)

\* C36: Fifth-byte overflow.  For every input of five bytes whose first four
\* have the continuation bit set and whose fifth has it clear, read_var_int
\* succeeds, having read the five bytes, and returns the low 32 bits of the
\* accumulated value as an i32: the seven payload bits of each of the first
\* four bytes and the low four payload bits of the fifth.  The three high
\* payload bits of the fifth byte are dropped without an error, so fifth
\* bytes that differ only in them decode to the same value.
FifthByteOverflow ==
    pc = "var_int_decoded" /\ Len(reader.data) >= 5
        /\ (\A i \in 1..4 : reader.data[i] >= 128) /\ reader.data[5] < 128 =>
        LET b == reader.data
            low28 == (b[1] % 128) + 128 * (b[2] % 128) + 16384 * (b[3] % 128)
                     + 2097152 * (b[4] % 128)
            low31 == low28 + 268435456 * (b[5] % 8)
            same == read_var_int(Source(SubSeq(b, 1, 4) \o <<b[5] % 16>>, FALSE))
        IN  /\ result.ok
            /\ reader.pos = 5
            /\ result.val = IF (b[5] \div 8) % 2 = 1 THEN low31 + I32_MIN ELSE low31
            /\ same.ok /\ same.val = result.val

\* the bytes 255 255 255 255 127 have been decoded: the value is -1, as it
\* is for the fifth byte 15, and the three high bits of the 127 are dropped
FifthByteOverflowWitness ==
    /\ pc = "var_int_decoded"
    /\ reader.data = <<255, 255, 255, 255, 127>>
    /\ result.ok
    /\ result.val = -1
    /\ reader.pos = 5

\* a fifth byte of 16, whose only payload bit does not fit: the value is that
\* of the fifth byte 0
DroppedBitWitness ==
    /\ pc = "var_int_decoded"
    /\ Len(reader.data) >= 5
    /\ SubSeq(reader.data, 1, 5) = <<129, 128, 128, 255, 16>>
    /\ result.ok
    /\ result.val = 1 + 2097152 * 127

-----------------------------------------------------------------------------
(* Properties of the listener: the slice of the message *)

\* C37: LAN message slicing is in bounds.  For every trimmed message that
\* starts with [MOTD] and ends with [/AD] the end index, the length minus 5,
\* is not smaller than the start index 6, so the slice between them is taken
\* without a panic; no message shorter than 11 bytes passes both checks.
SliceInBounds ==
    pc = "packet_parsed" =>
        /\ result.kind # "panic"
        /\ LET message == result.message
               n == Len(message)
           IN  (/\ n >= 6 /\ SubSeq(message, 1, 6) = <<91, 77, 79, 84, 68, 93>>
                /\ n >= 5 /\ SubSeq(message, n - 4, n) = <<91, 47, 65, 68, 93>>)
                  => /\ n >= 11
                     /\ n - 5 >= 6
                     /\ result.kind \in {"announce", "continue"}
        /\ result.kind \in {"announce", "continue"} /\ result.message # <<>>
              => Len(result.message) >= 11

\* the shortest message that passes both checks, [MOTD][/AD] with white space
\* around it: the slice is empty and the packet is skipped for its missing
\* delimiter
SliceInBoundsWitness ==
    /\ pc = "packet_parsed"
    /\ text = <<32, 91, 77, 79, 84, 68, 93, 91, 47, 65, 68, 93, 13, 10>>
    /\ result.kind = "continue"
    /\ Len(result.message) = 11

\* a message of ten bytes, [MOTD] and /AD]: it does not pass the checks
ShortMessageWitness ==
    /\ pc = "packet_parsed"
    /\ text = <<91, 77, 79, 84, 68, 93, 47, 65, 68, 93>>
    /\ result.kind = "ignored"

\* an announcement with a section sign as its motd and an empty port
SlicedAnnouncementWitness ==
    /\ pc = "packet_parsed"
    /\ result.kind = "announce"
    /\ result.motd = <<194, 167>>
    /\ result.port = <<>>
    /\ Len(result.message) = 24

=============================================================================
